---- MODULE Spec2Model ----
(***************************************************************************)
(* Verification model of wir: the platform introspection layer            *)
(* (src/src/platform.c) with the ancestry walk, the port connection       *)
(* resolver, the environment reader, the process information provider and *)
(* the process enumeration; the kill prompt (src/src/utils.c); the        *)
(* command line (src/src/args.c) and the program built on them            *)
(* (src/src/main.c).                                                      *)
(*                                                                         *)
(* Every query is a sequence of steps driven by pc.  Each component has   *)
(* its own specification (SpecTree, SpecPort, ...) starting from the      *)
(* common idle state, in which every allocation succeeds; Spec is their   *)
(* union together with the failure of an allocation.                      *)
(***************************************************************************)
EXTENDS Integers, Sequences, FiniteSets, TLC

VARIABLES
    pc,         \* position of the running query
    ptable,     \* tree: what platform_get_process_info answers for each pid
    frames,     \* tree: pids of the active platform_get_process_tree frames
    nodes,      \* tree: snapshots resolved so far, leaf first
    rc,         \* return value of the finished query (0 / -1), 2 while running
    port,       \* port: the port asked for
    netFiles,   \* port: <</proc/net/tcp, /proc/net/tcp6>>, NoFile or lines
    fdt,        \* port: pid -> Unreadable or the link targets under /proc/pid/fd
    fileIx,     \* port: 1 while parsing tcp, 2 while parsing tcp6
    lineNo,     \* port: index of the next line fgets returns
    conns,      \* port: *connections of the running parse_proc_net / lsof loop
    capacity,   \* port: allocated slots of conns
    allConns,   \* port: all_conns of platform_get_port_connections
    scans,      \* port: number of times opendir("/proc") started an owner scan
    lsofOut,    \* port (macOS): NoFile (popen failed) or the lsof field lines
    current,    \* port (macOS): the record being assembled
    hasData,    \* port (macOS): has_data
    envSrc,     \* env: the environ file / the KERN_PROCARGS2 bytes after argc
    envSize,    \* env (Linux): what ftell reports after seeking to the end
    envArgc,    \* env (macOS): the leading argument count of the buffer
    envBuf,     \* env: buffer as the parser sees it
    envVars,    \* env: the strings stored in *env_vars
    envCount,   \* env: *count
    askPid,     \* info: the pid asked for
    statFile,   \* info: /proc/<pid>/stat, NoFile or its fields
    bootFile,   \* info: /proc/stat, NoFile or its labelled lines
    tps,        \* info: sysconf(_SC_CLK_TCK)
    statusFile, \* info: /proc/<pid>/status, NoFile or its labelled lines
    cmdFile,    \* info: /proc/<pid>/cmdline, NoFile or its bytes
    ticks,      \* info: starttime_ticks
    info,       \* info: the process_info_t being filled
    bsd,        \* info (macOS): what proc_pidinfo / proc_pidpath answer
    allOs,      \* all, main: the build, "linux" or "macos"
    listing,    \* all: NoFile (opendir / sysctl failed) or the entries listed
    dirIx,      \* all: index of the next entry readdir / the loop delivers
    procs,      \* all: the slots of *processes written so far
    procCount,  \* all: *count
    allCap,     \* all: capacity
    qlog,       \* all: the platform_get_process_info calls made, in order
    killPid,    \* kill prompt: the pid handed to prompt_kill_process
    key,        \* kill prompt: the character read_single_char returns
    killErrno,  \* kill prompt: how the kernel answers kill(pid, SIGTERM)
    stillThere, \* kill prompt: whether the process exists 100 ms later
    signals,    \* kill prompt: the kill() calls made, in order
    argv,       \* main: the arguments after the program name
    args,       \* main: the cli_args_t filled by parse_args
    exitCode,   \* main: the exit status, -1 while the program runs
    out,        \* main: what the output functions printed, in order
    calls       \* main: the platform queries made with their results, in order

treeVars == <<ptable, frames, nodes>>
portVars == <<port, netFiles, fdt, fileIx, lineNo, conns, capacity, allConns,
              scans, lsofOut, current, hasData>>
envVarsAll == <<envSrc, envSize, envArgc, envBuf, envVars, envCount>>
infoVars == <<askPid, statFile, bootFile, tps, statusFile, cmdFile, ticks, info>>
allVars == <<allOs, listing, dirIx, procs, procCount, allCap, qlog>>
killVars == <<killPid, key, killErrno, stillThere, signals>>
cliVars == <<argv, args, exitCode, out, calls>>
extVars == <<bsd, allVars, killVars, cliVars>>
vars == <<pc, rc, treeVars, portVars, envVarsAll, infoVars, extVars>>

\* value of rc while no query has returned
Running == 2

\* platform_get_process_info returned -1
NotFound == [found |-> FALSE, ppid |-> 0]

----------------------------------------------------------------------------
(* Ancestry walk: platform_get_process_tree                                *)

\* largest pid of the modelled process table
MaxPid == 3
\* number of nested platform_get_process_tree frames the stack can hold
MaxDepth == 6

Pids == 1..MaxPid
\* pids a caller may ask for: the existing ones and one beyond them
AskPids == 1..(MaxPid + 1)
\* parent ids a snapshot can carry: negative, 0, an existing pid, a gone pid
Ppids == (-1)..(MaxPid + 1)

ProcTables == [Pids -> {NotFound} \cup [found : {TRUE}, ppid : Ppids]]

\* platform_get_process_info as the walk sees it: -1 or a snapshot
GetInfo(t, p) == IF p \in DOMAIN t THEN t[p] ELSE NotFound

TreeVarsInit ==
    /\ ptable = [p \in Pids |-> NotFound]
    /\ frames = <<>>
    /\ nodes = <<>>

TreeCall ==
    /\ pc = "idle"
    /\ UNCHANGED extVars
    /\ \E t \in ProcTables, p \in AskPids :
         /\ ptable' = t
         /\ frames' = <<p>>
    /\ nodes' = <<>>
    /\ pc' = "tree"
    /\ UNCHANGED <<rc, portVars, envVarsAll, infoVars>>

\* the parent test without the self-parent comparison
TreeRecursesNoSelfTest(ppid, pid) == ppid > 0

\* the test that decides whether a frame recurses into the parent
TreeRecurses(ppid, pid) == ppid > 0 /\ ppid # pid

\* one frame of platform_get_process_tree: resolve, then recurse or return
TreeStep ==
    /\ pc = "tree"
    /\ UNCHANGED extVars
    /\ LET pid  == frames[Len(frames)]
           snap == GetInfo(ptable, pid)
       IN IF ~snap.found
          THEN \* this frame returns -1; an outer frame leaves parent NULL
               /\ rc' = IF Len(frames) = 1 THEN -1 ELSE 0
               /\ pc' = "tree_done"
               /\ UNCHANGED <<frames, nodes>>
          ELSE /\ nodes' = Append(nodes, [pid |-> pid, ppid |-> snap.ppid])
               /\ IF TreeRecurses(snap.ppid, pid)
                  THEN IF Len(frames) < MaxDepth
                       THEN /\ frames' = Append(frames, snap.ppid)
                            /\ UNCHANGED <<pc, rc>>
                       ELSE \* no room for another frame
                            /\ pc' = "tree_overflow"
                            /\ UNCHANGED <<frames, rc>>
                  ELSE /\ rc' = 0
                       /\ pc' = "tree_done"
                       /\ UNCHANGED frames
    /\ UNCHANGED <<ptable, portVars, envVarsAll, infoVars>>

NextTree == TreeCall \/ TreeStep

Leaf == frames[1]

\* the chain the walk is to return: leaf first, up to the first process
\* whose parent id is non-positive, its own pid, or not resolvable
RECURSIVE AncestryPath(_, _, _)
AncestryPath(t, p, fuel) ==
    LET snap == GetInfo(t, p)
    IN IF ~snap.found \/ fuel = 0
       THEN <<>>
       ELSE <<[pid |-> p, ppid |-> snap.ppid]>> \o
            (IF snap.ppid <= 0 \/ snap.ppid = p
             THEN <<>>
             ELSE AncestryPath(t, snap.ppid, fuel - 1))

\* the parent pointers from p reach such a last process (no cycle on the way)
RECURSIVE ReachesEnd(_, _, _)
ReachesEnd(t, p, fuel) ==
    LET snap == GetInfo(t, p)
    IN \/ ~snap.found
       \/ snap.ppid <= 0
       \/ snap.ppid = p
       \/ fuel > 0 /\ ReachesEnd(t, snap.ppid, fuel - 1)

NoRepeatedPid(chain) ==
    \A i, j \in 1..Len(chain) : i # j => chain[i].pid # chain[j].pid

Existing(t) == {p \in DOMAIN t : t[p].found}

\* C1: for every parent relation, cyclic ones included, the walk ends after
\* resolving at most as many processes as exist and no pid occurs twice in
\* the chain.
C1_WalkBoundedNoRepeat ==
    pc \in {"tree", "tree_done", "tree_overflow"} =>
        /\ pc # "tree_overflow"
        /\ Len(nodes) <= Cardinality(Existing(ptable))
        /\ NoRepeatedPid(nodes)

\* C9: the walk returns -1 exactly when the leaf does not resolve; otherwise
\* it returns 0 with the chain leaf first up to the first process whose
\* parent is non-positive, itself or unresolvable; whenever the parent
\* pointers reach such a process the walk does return.
C9_TreeResult ==
    /\ pc = "tree_done" =>
          /\ rc \in {0, -1}
          /\ (rc = -1) <=> ~GetInfo(ptable, Leaf).found
          /\ nodes = AncestryPath(ptable, Leaf, MaxPid)
    /\ pc = "tree_overflow" => ~ReachesEnd(ptable, Leaf, MaxPid)

\* a chain of two or more that ends at a parent that cannot be resolved
C9_Witness ==
    /\ pc = "tree_done"
    /\ rc = 0
    /\ Len(nodes) >= 2
    /\ nodes[Len(nodes)].ppid > 0
    /\ nodes[Len(nodes)].ppid # nodes[Len(nodes)].pid
    /\ ~GetInfo(ptable, nodes[Len(nodes)].ppid).found


----------------------------------------------------------------------------
(* Text conversions used by the resolvers                                  *)
(* A hexadecimal or decimal text is the sequence of its digit values; an   *)
(* absent or non-numeric field is the empty sequence.                      *)

\* a file that cannot be opened, and one that opens with the given lines
NoFile == [open |-> FALSE, lines |-> <<>>]
File(lines) == [open |-> TRUE, lines |-> lines]
\* a descriptor directory that cannot be opened, and one with the given links
Unreadable == [readable |-> FALSE, links |-> {}]
FdDir(links) == [readable |-> TRUE, links |-> links]

\* largest value of the int the inode is scanned into
IntMax == 2147483647

\* sscanf %x on a text that fits an int
RECURSIVE HexVal(_)
HexVal(t) == IF t = <<>> THEN 0
             ELSE HexVal(SubSeq(t, 1, Len(t) - 1)) * 16 + t[Len(t)]

\* atoi / %d on a text that fits an int
RECURSIVE DecVal(_)
DecVal(t) == IF t = <<>> THEN 0
             ELSE DecVal(SubSeq(t, 1, Len(t) - 1)) * 10 + t[Len(t)]

\* the value of a decimal text modulo 2^32, kept as two 16-bit halves
RECURSIVE Acc32(_)
Acc32(t) ==
    IF t = <<>> THEN [hi |-> 0, lo |-> 0, ovf |-> FALSE]
    ELSE LET a   == Acc32(SubSeq(t, 1, Len(t) - 1))
             lo2 == a.lo * 10 + t[Len(t)]
             hi2 == a.hi * 10 + (lo2 \div 65536)
         IN [hi |-> hi2 % 65536, lo |-> lo2 % 65536,
             ovf |-> a.ovf \/ hi2 >= 65536]

\* sscanf %d into an int: the value when it fits; beyond INT_MAX the C
\* library either keeps the low 32 bits (64-bit long) or stops at INT_MAX
\* (32-bit long)
ScanD(t) ==
    LET a == Acc32(t)
    IN IF ~a.ovf /\ a.hi < 32768
       THEN {a.hi * 65536 + a.lo}
       ELSE {IF a.hi >= 32768 THEN (a.hi - 65536) * 65536 + a.lo
                              ELSE a.hi * 65536 + a.lo,
             IntMax}

RECURSIVE Digits(_)
Digits(n) == IF n < 10 THEN <<n>> ELSE Digits(n \div 10) \o <<n % 10>>

\* printf %d
FormatD(v) ==
    IF v >= 0 THEN [neg |-> FALSE, digits |-> Digits(v)]
    ELSE IF v = -IntMax - 1
         THEN [neg |-> TRUE, digits |-> <<2, 1, 4, 7, 4, 8, 3, 6, 4, 8>>]
         ELSE [neg |-> TRUE, digits |-> Digits(-v)]

\* the link target the kernel gives a socket descriptor: "socket:[<ino>]"
SocketLink(inoText) ==
    [kind |-> "socket", ino |-> [neg |-> FALSE, digits |-> inoText]]
OtherLink == [kind |-> "file", ino |-> [neg |-> FALSE, digits |-> <<>>]]

----------------------------------------------------------------------------
(* Port connection resolver, Linux: parse_proc_net and                     *)
(* platform_get_port_connections                                           *)

\* number of data lines a modelled connection table holds at most
MaxLines == 2

Hex8080 == <<1, 15, 9, 0>>
Hex80 == <<0, 0, 5, 0>>
Ino12345 == <<1, 2, 3, 4, 5>>
Ino777 == <<7, 7, 7>>
InoBig == <<3, 0, 0, 0, 0, 0, 0, 0, 0, 0>>

Ports == {8080, 80}

NetLine(lport, st, ino) ==
    [laddr |-> <<0, 1, 0, 0, 0, 0, 7, 15>>, lport |-> lport,
     raddr |-> <<0, 0, 0, 0, 0, 0, 0, 0>>, rport |-> <<0, 0, 0, 0>>,
     st |-> st, uid |-> <<1, 0, 0, 0>>, inode |-> ino]

\* the column header: no field converts
HeaderLine ==
    [laddr |-> <<>>, lport |-> <<>>, raddr |-> <<>>, rport |-> <<>>,
     st |-> <<>>, uid |-> <<>>, inode |-> <<>>]

LnListen == NetLine(Hex8080, <<0, 10>>, Ino12345)
LnEstab == NetLine(Hex8080, <<0, 1>>, Ino777)
LnOther == NetLine(Hex80, <<0, 10>>, Ino12345)
LnBig == NetLine(Hex8080, <<0, 10>>, InoBig)
\* a line cut before its inode column
LnShort == [LnListen EXCEPT !.inode = <<>>]

DataLines == {LnListen, LnEstab, LnOther, LnBig, LnShort}

RECURSIVE SeqsUpTo(_, _)
SeqsUpTo(S, n) ==
    IF n = 0 THEN {<<>>}
    ELSE LET shorter == SeqsUpTo(S, n - 1)
         IN shorter \cup {Append(q, x) : q \in shorter, x \in S}

\* /proc/net/tcp: missing, empty, or the header followed by data lines
Tcp4Files == {NoFile, File(<<>>)} \cup
             {File(<<HeaderLine>> \o q) : q \in SeqsUpTo(DataLines, MaxLines)}
Tcp6Files == {NoFile, File(<<HeaderLine>>), File(<<HeaderLine, LnListen>>),
              File(<<HeaderLine, LnEstab, LnOther>>)}

\* descriptor tables of the processes 500 and 600
FdTables ==
    { (500 :> FdDir({SocketLink(Ino12345), OtherLink})
         @@ 600 :> FdDir({SocketLink(InoBig)})),
      (500 :> Unreadable @@ 600 :> FdDir({SocketLink(Ino12345)})),
      (500 :> FdDir({SocketLink(Ino12345)})
         @@ 600 :> FdDir({SocketLink(Ino12345), OtherLink})) }

\* the return value of the sscanf of line 123: conversions stored before the
\* first field that does not convert
Matched(line) ==
    LET fields == <<line.laddr, line.lport, line.raddr, line.rport,
                    line.st, line.uid, line.inode>>
    IN IF \A i \in 1..7 : fields[i] # <<>> THEN 7
       ELSE (CHOOSE i \in 1..7 : fields[i] = <<>> /\
                                 \A j \in 1..(i - 1) : fields[j] # <<>>) - 1

\* the switch of lines 164-177
StateName(code) ==
    CASE code = 1 -> "ESTABLISHED"
      [] code = 2 -> "SYN_SENT"
      [] code = 3 -> "SYN_RECV"
      [] code = 4 -> "FIN_WAIT1"
      [] code = 5 -> "FIN_WAIT2"
      [] code = 6 -> "TIME_WAIT"
      [] code = 7 -> "CLOSE"
      [] code = 8 -> "CLOSE_WAIT"
      [] code = 9 -> "LAST_ACK"
      [] code = 10 -> "LISTEN"
      [] code = 11 -> "CLOSING"
      [] OTHER -> "UNKNOWN"

\* %lx then the four low bytes, lowest first; a field of more than 16 hex
\* digits saturates the unsigned long
DottedQuad(t) ==
    IF Len(t) > 16 THEN <<255, 255, 255, 255>>
    ELSE LET d(i) == IF Len(t) - i >= 1 THEN t[Len(t) - i] ELSE 0
         IN <<d(1) * 16 + d(0), d(3) * 16 + d(2),
              d(5) * 16 + d(4), d(7) * 16 + d(6)>>

\* strstr(filename, "tcp6") ? "TCP6" : "TCP"
ProtocolOfAlwaysTcp(ix) == "TCP"

ProtocolOf(ix) == IF ix = 2 THEN "TCP6" ELSE "TCP"

\* the owner scan with the record's pid left at the zero of the memset
FindOwnerZeroDefault(t, ino) ==
    LET expected == [kind |-> "socket", ino |-> FormatD(ino)]
        holders  == {p \in DOMAIN t : t[p].readable /\ expected \in t[p].links}
    IN IF holders = {} THEN {0} ELSE holders

\* the scan of /proc/<pid>/fd/* for "socket:[<inode>]": the pid of the first
\* directory, in readdir order, that holds the link; -1 when none does
FindOwner(t, ino) ==
    LET expected == [kind |-> "socket", ino |-> FormatD(ino)]
        holders  == {p \in DOMAIN t : t[p].readable /\ expected \in t[p].links}
    IN IF holders = {} THEN {-1} ELSE holders

\* the line filter without the port comparison
LineSelectedAnyPort(line, target) == Matched(line) >= 7

\* lines 127-134: the line converts fully and its local port is the target
LineSelected(line, target) ==
    /\ Matched(line) >= 7
    /\ HexVal(line.lport) = target

PortVarsInit ==
    /\ port = 0
    /\ netFiles = <<NoFile, NoFile>>
    /\ fdt = <<>>
    /\ fileIx = 0
    /\ lineNo = 0
    /\ conns = <<>>
    /\ capacity = 0
    /\ allConns = <<>>
    /\ scans = 0
    /\ lsofOut = NoFile
    /\ current = <<>>
    /\ hasData = FALSE

PortCallLinux ==
    /\ pc = "idle"
    /\ UNCHANGED extVars
    /\ \E p \in Ports, f4 \in Tcp4Files, f6 \in Tcp6Files, t \in FdTables :
         /\ port' = p
         /\ netFiles' = <<f4, f6>>
         /\ fdt' = t
    /\ fileIx' = 1
    /\ pc' = "net_open"
    /\ UNCHANGED <<rc, treeVars, envVarsAll, infoVars, lineNo, conns, capacity, allConns, scans,
                   lsofOut, current, hasData>>

\* parse_proc_net has returned prc with the records cs: the caller merges
\* them (lines 256-261, 266-271) and goes on to tcp6 or returns 0
AfterParse(prc, cs) ==
    /\ allConns' = IF prc = 0 THEN allConns \o cs ELSE allConns
    /\ IF fileIx = 1
       THEN /\ fileIx' = 2
            /\ pc' = "net_open"
            /\ rc' = rc
       ELSE /\ fileIx' = fileIx
            /\ pc' = "port_done"
            /\ rc' = 0

\* lines 98-113: open the table, allocate, skip the header
ParseOpen ==
    /\ pc = "net_open"
    /\ UNCHANGED extVars
    /\ LET f == netFiles[fileIx].lines
       IN IF ~netFiles[fileIx].open
          THEN /\ AfterParse(-1, <<>>)
               /\ UNCHANGED <<conns, capacity, lineNo>>
          ELSE /\ conns' = <<>>
               /\ capacity' = 10
               /\ IF Len(f) = 0
                  THEN /\ AfterParse(0, <<>>)
                       /\ UNCHANGED lineNo
                  ELSE /\ lineNo' = 2
                       /\ pc' = "net_line"
                       /\ UNCHANGED <<rc, allConns, fileIx>>
    /\ UNCHANGED <<treeVars, envVarsAll, infoVars, port, netFiles, fdt, scans, lsofOut, current,
                   hasData>>

\* one turn of the loop of lines 115-225, or its end
ParseLine ==
    /\ pc = "net_line"
    /\ UNCHANGED extVars
    /\ LET f == netFiles[fileIx].lines
       IN IF lineNo > Len(f)
          THEN /\ AfterParse(0, conns)
               /\ UNCHANGED <<lineNo, conns, capacity, scans>>
          ELSE LET line == f[lineNo]
               IN /\ lineNo' = lineNo + 1
                  /\ UNCHANGED <<pc, rc, allConns, fileIx>>
                  /\ IF ~LineSelected(line, port)
                     THEN UNCHANGED <<conns, capacity, scans>>
                     ELSE /\ capacity' = IF Len(conns) >= capacity
                                         THEN capacity * 2 ELSE capacity
                          /\ scans' = scans + 1
                          /\ \E ino \in ScanD(line.inode) :
                             \E owner \in FindOwner(fdt, ino) :
                               conns' = Append(conns,
                                 [local_addr |-> DottedQuad(line.laddr),
                                  local_port |-> HexVal(line.lport),
                                  remote_addr |-> DottedQuad(line.raddr),
                                  remote_port |-> HexVal(line.rport),
                                  state |-> StateName(HexVal(line.st)),
                                  protocol |-> ProtocolOf(fileIx),
                                  pid |-> owner])
    /\ UNCHANGED <<treeVars, envVarsAll, infoVars, port, netFiles, fdt, lsofOut, current, hasData>>

NextPortLinux == PortCallLinux \/ ParseOpen \/ ParseLine

----------------------------------------------------------------------------
(* Port connection resolver, macOS: platform_get_port_connections over    *)
(* the field output of lsof                                                *)

\* number of field lines a modelled lsof output holds at most
MaxLsof == 3

LsofLine(tag, num, str) == [tag |-> tag, num |-> num, str |-> str]
LsofLines == {LsofLine("p", <<5, 0, 0>>, ""), LsofLine("p", <<6, 0, 0>>, ""),
              LsofLine("c", <<>>, "node"), LsofLine("n", <<>>, "*:8080")}
\* popen failed, or the lines the command printed
LsofOutputs == {NoFile} \cup {File(q) : q \in SeqsUpTo(LsofLines, MaxLsof)}

\* memset(&current, 0, sizeof(current))
ZeroConn == [local_addr |-> "", local_port |-> 0, remote_addr |-> "",
             remote_port |-> 0, state |-> "", protocol |-> "", pid |-> 0]

PortCallMac ==
    /\ pc = "idle"
    /\ UNCHANGED extVars
    /\ \E p \in Ports, lo \in LsofOutputs :
         /\ port' = p
         /\ lsofOut' = lo
    /\ pc' = "lsof_open"
    /\ UNCHANGED <<rc, treeVars, envVarsAll, infoVars, netFiles, fdt, fileIx, lineNo, conns,
                   capacity, allConns, scans, current, hasData>>

\* lines 499-511
LsofOpen ==
    /\ pc = "lsof_open"
    /\ UNCHANGED extVars
    /\ IF ~lsofOut.open
       THEN /\ rc' = -1
            /\ pc' = "port_done"
            /\ UNCHANGED <<conns, capacity, current, hasData, lineNo>>
       ELSE /\ conns' = <<>>
            /\ capacity' = 10
            /\ current' = ZeroConn
            /\ hasData' = FALSE
            /\ lineNo' = 1
            /\ pc' = "lsof_line"
            /\ UNCHANGED rc
    /\ UNCHANGED <<treeVars, envVarsAll, infoVars, port, netFiles, fdt, fileIx, allConns, scans,
                   lsofOut>>

\* one turn of the loop of lines 514-538, or lines 540-550 at its end
LsofStep ==
    /\ pc = "lsof_line"
    /\ UNCHANGED extVars
    /\ IF lineNo > Len(lsofOut.lines)
       THEN /\ capacity' = IF hasData /\ Len(conns) >= capacity
                           THEN capacity + 1 ELSE capacity
            /\ conns' = IF hasData THEN Append(conns, current) ELSE conns
            /\ allConns' = conns'
            /\ rc' = 0
            /\ pc' = "port_done"
            /\ UNCHANGED <<lineNo, current, hasData>>
       ELSE LET line == lsofOut.lines[lineNo]
            IN /\ lineNo' = lineNo + 1
               /\ UNCHANGED <<pc, rc, allConns>>
               /\ CASE line.tag = "p" ->
                         LET stored == hasData /\ Len(conns) < capacity
                         IN /\ conns' = IF stored THEN Append(conns, current)
                                        ELSE conns
                            /\ capacity' = IF stored /\ Len(conns') >= capacity
                                           THEN capacity * 2 ELSE capacity
                            /\ current' = [current EXCEPT
                                             !.pid = DecVal(line.num),
                                             !.local_port = port,
                                             !.protocol = "TCP",
                                             !.state = "LISTEN"]
                            /\ hasData' = TRUE
                    [] line.tag = "n" ->
                         /\ current' = [current EXCEPT !.local_addr = line.str]
                         /\ UNCHANGED <<conns, capacity, hasData>>
                    [] OTHER ->
                         UNCHANGED <<conns, capacity, current, hasData>>
    /\ UNCHANGED <<treeVars, envVarsAll, infoVars, port, netFiles, fdt, fileIx, scans, lsofOut>>

NextPortMac == PortCallMac \/ LsofOpen \/ LsofStep
NextPort == NextPortLinux \/ NextPortMac

----------------------------------------------------------------------------
(* Properties of the port connection resolver                              *)

LinuxPortDone == pc = "port_done" /\ fileIx = 2
MacPortDone == pc = "port_done" /\ fileIx = 0

\* the data lines of a table whose local port column reads as the target
OnPort(line) == line.lport # <<>> /\ HexVal(line.lport) = port
\* ... and that carry all seven columns
IsMatching(line) == OnPort(line) /\ line.inode # <<>> /\ Matched(line) = 7

DataOf(f) == IF f.open /\ Len(f.lines) > 0 THEN Tail(f.lines) ELSE <<>>

\* the matching lines of both tables, tcp first
MatchingLines ==
    SelectSeq(DataOf(netFiles[1]), IsMatching) \o
    SelectSeq(DataOf(netFiles[2]), IsMatching)

\* the processes whose readable descriptor directory links to the socket
Holders(inoText) ==
    {p \in DOMAIN fdt : fdt[p].readable /\ SocketLink(inoText) \in fdt[p].links}

\* C2: within one call the scan over all descriptor directories is started
\* at most once, however many lines match.
C2_IndexBuiltOnce == scans <= 1

\* C4: when neither connection table opens the call returns an error; it
\* returns success with an empty list only when a table opened.
C4_UnavailableIsError ==
    LinuxPortDone =>
        /\ (~netFiles[1].open /\ ~netFiles[2].open) => rc = -1
        /\ (rc = 0 /\ allConns = <<>>) => (netFiles[1].open \/ netFiles[2].open)

\* C6: every record, stored or returned, has local_port equal to the port
\* asked for, and no more records are returned than there are lines on it.
C6_RecordsOnPort ==
    /\ \A i \in 1..Len(conns) : conns[i].local_port = port
    /\ \A i \in 1..Len(allConns) : allConns[i].local_port = port
    /\ LinuxPortDone =>
         Len(allConns) <= Len(SelectSeq(DataOf(netFiles[1]), OnPort))
                          + Len(SelectSeq(DataOf(netFiles[2]), OnPort))

\* a Linux call that returned a record although a well-formed line of another
\* port stood in the table
C6_Witness ==
    /\ LinuxPortDone
    /\ Len(allConns) >= 1
    /\ \E i \in 1..Len(DataOf(netFiles[1])) :
         /\ Matched(DataOf(netFiles[1])[i]) = 7
         /\ ~OnPort(DataOf(netFiles[1])[i])

\* C7: a matching connection whose inode no scanned process holds still
\* yields its record, with pid -1; the call returns 0 with one record per
\* matching line, those after the unowned one included.
C7_UnknownOwner ==
    LinuxPortDone =>
        /\ rc = 0
        /\ Len(allConns) = Len(MatchingLines)
        /\ \A k \in 1..Len(MatchingLines) :
             Holders(MatchingLines[k].inode) = {} => allConns[k].pid = -1

\* an unowned connection was recorded and a later one resolved to its owner
C7_Witness ==
    /\ LinuxPortDone
    /\ \E k \in 1..Len(MatchingLines) :
         /\ Holders(MatchingLines[k].inode) = {}
         /\ k < Len(allConns)
         /\ allConns[k].pid = -1
         /\ allConns[k + 1].pid > 0

\* C8: one record per matching line, and when a process holds the line's
\* socket the record carries the pid of such a process and the decoded
\* state (LISTEN for 0A).
C8_OwnerResolved ==
    LinuxPortDone =>
        /\ Len(allConns) = Len(MatchingLines)
        /\ \A k \in 1..Len(MatchingLines) :
             /\ Holders(MatchingLines[k].inode) # {} =>
                  allConns[k].pid \in Holders(MatchingLines[k].inode)
             /\ MatchingLines[k].st = <<0, 10>> => allConns[k].state = "LISTEN"

\* the positions of the 'p' lines of the lsof output, in order
RECURSIVE PLinesFrom(_)
PLinesFrom(i) ==
    IF i > Len(lsofOut.lines) THEN <<>>
    ELSE (IF lsofOut.lines[i].tag = "p" THEN <<i>> ELSE <<>>)
         \o PLinesFrom(i + 1)

\* the addresses of the 'n' lines between the 'p' line at position i and the
\* next 'p' line
OwnAddresses(i) ==
    {lsofOut.lines[j].str :
        j \in {j \in (i + 1)..Len(lsofOut.lines) :
                 /\ lsofOut.lines[j].tag = "n"
                 /\ \A m \in (i + 1)..j : lsofOut.lines[m].tag # "p"}}

\* lsof opens each process set with its 'p' line: no field line precedes the
\* first one
ProcessSetsOnly ==
    Len(lsofOut.lines) > 0 => lsofOut.lines[1].tag = "p"

\* C24: on macOS the list holds exactly one record per 'p' line, in order;
\* each has state "LISTEN", protocol "TCP", the queried port as local_port,
\* the pid of its 'p' line, and a local address taken from an 'n' line after
\* its own 'p' line, empty when there is none.
C24_OneRecordPerProcess ==
    (MacPortDone /\ rc = 0 /\ ProcessSetsOnly) =>
        LET ps == PLinesFrom(1)
        IN /\ Len(allConns) = Len(ps)
           /\ \A k \in 1..Len(ps) :
                /\ allConns[k].pid = DecVal(lsofOut.lines[ps[k]].num)
                /\ allConns[k].state = "LISTEN"
                /\ allConns[k].protocol = "TCP"
                /\ allConns[k].local_port = port
                /\ IF OwnAddresses(ps[k]) = {}
                   THEN allConns[k].local_addr = ""
                   ELSE allConns[k].local_addr \in OwnAddresses(ps[k])

\* the matching lines of one table, in table order
MatchingIn(ix) == SelectSeq(DataOf(netFiles[ix]), IsMatching)

\* C30: on Linux the list returned holds the matching records of the IPv4
\* table in table order, tagged "TCP", followed by those of the IPv6 table,
\* tagged "TCP6"; the count is the sum of both, and a table that cannot be
\* opened takes nothing from the other table's records.
C30_Tcp4ThenTcp6 ==
    LinuxPortDone =>
        LET m4 == MatchingIn(1)
            m6 == MatchingIn(2)
        IN /\ rc = 0
           /\ Len(allConns) = Len(m4) + Len(m6)
           /\ \A k \in 1..Len(m4) :
                /\ allConns[k].protocol = "TCP"
                /\ allConns[k].state = StateName(HexVal(m4[k].st))
           /\ \A k \in 1..Len(m6) :
                /\ allConns[Len(m4) + k].protocol = "TCP6"
                /\ allConns[Len(m4) + k].state = StateName(HexVal(m6[k].st))

\* two IPv4 records in different states followed by an IPv6 record
C30_Witness ==
    /\ LinuxPortDone
    /\ MatchingIn(1) = <<LnEstab, LnListen>>
    /\ Len(MatchingIn(2)) = 1
    /\ Len(allConns) = 3
    /\ allConns[1].state = "ESTABLISHED"
    /\ allConns[2].protocol = "TCP"
    /\ allConns[3].protocol = "TCP6"

\* only the IPv6 table opens and its records are returned
C30_WitnessOneTable ==
    /\ LinuxPortDone
    /\ ~netFiles[1].open
    /\ Len(allConns) = 1
    /\ allConns[1].protocol = "TCP6"

----------------------------------------------------------------------------
(* Environment reader: platform_get_process_env                            *)
(* A buffer is a sequence of bytes; offset i of the C code is element i+1. *)

NUL == 0
EQ == 61
LetterA == 65
EnvBytes == {NUL, EQ, LetterA}

\* length of a modelled environ file at most
MaxEnvLen == 4

\* byte at C offset i
At(buf, i) == buf[i + 1]

\* strlen(buf + i): bytes before the next NUL
RECURSIVE StrLen(_, _)
StrLen(buf, i) ==
    IF i >= Len(buf) \/ At(buf, i) = NUL THEN 0 ELSE 1 + StrLen(buf, i + 1)

\* the C string that starts at offset i (strdup(buf + i))
CStr(buf, i) == SubSeq(buf, i + 1, i + StrLen(buf, i))

\* strchr(s, '=') != NULL
HasEq(str) == \E k \in 1..Len(str) : str[k] = EQ

\* lines 440-445: count the NULs that follow a non-NUL byte, offsets 0..n
CountPassEveryNul(buf, n) ==
    Cardinality({i \in 0..n : At(buf, i) = NUL})

CountPass(buf, n) ==
    Cardinality({i \in 0..n : At(buf, i) = NUL /\ i > 0 /\ At(buf, i - 1) # NUL})

\* line 455: if (*start)
FragmentKeptAlways(buf, start) == TRUE

FragmentKept(buf, start) == At(buf, start) # NUL

\* lines 451-460 from offset i on: start is the offset of the fragment begun
RECURSIVE SplitPass(_, _, _, _)
SplitPass(buf, n, i, start) ==
    IF i > n THEN <<>>
    ELSE IF At(buf, i) = NUL /\ start < n
         THEN (IF FragmentKept(buf, start) THEN <<CStr(buf, start)>> ELSE <<>>)
              \o SplitPass(buf, n, i + 1, i + 1)
         ELSE SplitPass(buf, n, i + 1, start)

EnvFiles == {NoFile} \cup {File(q) : q \in SeqsUpTo(EnvBytes, MaxEnvLen)}

EnvVarsInit ==
    /\ envSrc = NoFile
    /\ envSize = 0
    /\ envArgc = 0
    /\ envBuf = <<>>
    /\ envVars = <<>>
    /\ envCount = 0

EnvCallLinux ==
    /\ pc = "idle"
    /\ UNCHANGED extVars
    /\ \E f \in EnvFiles :
         /\ envSrc' = f
         \* a regular file reports its length, a /proc file reports less
         /\ \E sz \in 0..Len(f.lines) : envSize' = sz
    /\ pc' = "env_open"
    /\ UNCHANGED <<rc, treeVars, portVars, infoVars, envArgc, envBuf, envVars, envCount>>

\* lines 424-437: open, size, read size bytes, terminate the buffer
EnvOpenLinux ==
    /\ pc = "env_open"
    /\ UNCHANGED extVars
    /\ IF ~envSrc.open
       THEN /\ rc' = -1
            /\ pc' = "env_done"
            /\ UNCHANGED envBuf
       ELSE /\ envBuf' = SubSeq(envSrc.lines, 1, envSize) \o <<NUL>>
            /\ pc' = "env_split"
            /\ UNCHANGED rc
    /\ UNCHANGED <<treeVars, portVars, infoVars, envSrc, envSize, envArgc, envVars,
                   envCount>>

\* lines 439-463: count, allocate, split
EnvSplitLinux ==
    /\ pc = "env_split"
    /\ UNCHANGED extVars
    /\ LET n == Len(envBuf) - 1
       IN /\ envCount' = CountPass(envBuf, n)
          /\ envVars' = SplitPass(envBuf, n, 0, 0)
    /\ rc' = 0
    /\ pc' = "env_done"
    /\ UNCHANGED <<treeVars, portVars, infoVars, envSrc, envSize, envArgc, envBuf>>

NextEnvLinux == EnvCallLinux \/ EnvOpenLinux \/ EnvSplitLinux

(* macOS: the KERN_PROCARGS2 buffer                                        *)

\* arguments and environment strings a modelled buffer holds at most
MaxArgs == 2
MaxMacEnv == 2

StrA == <<LetterA>>
StrAeqA == <<LetterA, EQ, LetterA>>
StrEqA == <<EQ, LetterA>>

\* each string followed by its NUL
RECURSIVE Join(_)
Join(strs) == IF strs = <<>> THEN <<>>
              ELSE Head(strs) \o <<NUL>> \o Join(Tail(strs))

\* the layout the kernel writes: path, padding, argc arguments, environment,
\* closing NUL
ProcArgs(argl, pad, envs) ==
    [open |-> TRUE, argc |-> Len(argl), argl |-> argl, envl |-> envs,
     lines |-> StrA \o <<NUL>> \o [i \in 1..pad |-> NUL] \o Join(argl)
               \o Join(envs) \o <<NUL>>]

MacEnvSources ==
    {[open |-> FALSE, argc |-> 0, argl |-> <<>>, envl |-> <<>>, lines |-> <<>>]}
    \cup
    {ProcArgs(argl, pad, envs) :
        argl \in SeqsUpTo({StrA, <<>>, StrAeqA}, MaxArgs) \ {<<>>},
        pad \in 0..1,
        envs \in SeqsUpTo({StrAeqA, StrEqA, StrA}, MaxMacEnv)}

\* lines 706-708
RECURSIVE SkipPadding(_, _)
SkipPadding(buf, ptr) ==
    IF ptr < Len(buf) /\ At(buf, ptr) = NUL THEN SkipPadding(buf, ptr + 1)
    ELSE ptr

\* lines 711-713
RECURSIVE SkipArgs(_, _, _)
SkipArgs(buf, ptr, k) ==
    IF k > 0 /\ ptr < Len(buf)
    THEN SkipArgs(buf, ptr + StrLen(buf, ptr) + 1, k - 1)
    ELSE ptr

\* the loops of lines 719-729 and 736-746: the strings with '=' from ptr up
\* to the first empty string or the end of the buffer
RECURSIVE CollectEnv(_, _)
CollectEnv(buf, ptr) ==
    IF ptr >= Len(buf) \/ At(buf, ptr) = NUL THEN <<>>
    ELSE (IF HasEq(CStr(buf, ptr)) THEN <<CStr(buf, ptr)>> ELSE <<>>)
         \o CollectEnv(buf, ptr + StrLen(buf, ptr) + 1)

EnvCallMac ==
    /\ pc = "idle"
    /\ UNCHANGED extVars
    /\ \E src \in MacEnvSources :
         /\ envSrc' = [open |-> src.open, lines |-> src.lines,
                        argl |-> src.argl, envl |-> src.envl]
         /\ envArgc' = src.argc
    /\ pc' = "env_sysctl"
    /\ UNCHANGED <<rc, treeVars, portVars, infoVars, envSize, envBuf, envVars, envCount>>

\* lines 677-688: the two sysctl calls
EnvSysctlMac ==
    /\ pc = "env_sysctl"
    /\ UNCHANGED extVars
    /\ IF ~envSrc.open
       THEN /\ rc' = -1
            /\ pc' = "env_done"
            /\ UNCHANGED envBuf
       ELSE /\ envBuf' = envSrc.lines
            /\ pc' = "env_scan"
            /\ UNCHANGED rc
    /\ UNCHANGED <<treeVars, portVars, infoVars, envSrc, envSize, envArgc, envVars,
                   envCount>>

\* lines 698-752
EnvScanMac ==
    /\ pc = "env_scan"
    /\ UNCHANGED extVars
    /\ LET afterPath == StrLen(envBuf, 0) + 1
           afterPad  == SkipPadding(envBuf, afterPath)
           envStart  == SkipArgs(envBuf, afterPad, envArgc)
           counted   == Len(CollectEnv(envBuf, envStart))
           copied    == SubSeq(CollectEnv(envBuf, envStart), 1, counted)
       IN /\ envVars' = copied
          /\ envCount' = Len(copied)
    /\ rc' = 0
    /\ pc' = "env_done"
    /\ UNCHANGED <<treeVars, portVars, infoVars, envSrc, envSize, envArgc, envBuf>>

NextEnvMac == EnvCallMac \/ EnvSysctlMac \/ EnvScanMac
NextEnv == NextEnvLinux \/ NextEnvMac

\* position of the first NUL of s, Len(s) + 1 when it has none
FirstNul(s) ==
    IF \E k \in 1..Len(s) : s[k] = NUL
    THEN CHOOSE k \in 1..Len(s) : s[k] = NUL /\ \A j \in 1..(k - 1) : s[j] # NUL
    ELSE Len(s) + 1

\* the non-empty NUL-delimited fragments of s, in order
RECURSIVE Fragments(_)
Fragments(s) ==
    IF s = <<>> THEN <<>>
    ELSE LET k == FirstNul(s)
         IN (IF k > 1 THEN <<SubSeq(s, 1, k - 1)>> ELSE <<>>)
            \o Fragments(SubSeq(s, k + 1, Len(s)))

\* the bytes fread delivered: the buffer without its added terminator
BytesRead == SubSeq(envBuf, 1, Len(envBuf) - 1)

\* C13: on Linux the entries returned are exactly the non-empty NUL-delimited
\* fragments of the bytes read, in order and with duplicates kept; a final
\* fragment without a terminating NUL is included and empty fragments are
\* skipped; count is the number of entries.
C13_EntriesAreFragments ==
    (pc = "env_done" /\ rc = 0) =>
        /\ envVars = Fragments(BytesRead)
        /\ envCount = Len(envVars)

\* an empty fragment, a duplicate and an unterminated final fragment
C13_Witness ==
    /\ pc = "env_done"
    /\ rc = 0
    /\ BytesRead = <<NUL, LetterA, NUL, LetterA>>
    /\ envVars = <<StrA, StrA>>
    /\ envCount = 2

\* C28: on Linux every non-empty entry the environment source holds is
\* returned, whatever length seeking to the end reported; a successful
\* result never misses entries of the source.
C28_AllEntriesReturned ==
    (pc = "env_done" /\ rc = 0) => envVars = Fragments(envSrc.lines)

\* C29: on Linux the split pass stores exactly as many strings as the
\* count pass counted: it never stores more than the array has slots, and
\* every one of the count slots holds a stored, non-empty string.
C29_StoredEqualsCounted ==
    (pc = "env_done" /\ rc = 0) =>
        /\ Len(envVars) <= envCount
        /\ Len(envVars) >= envCount
        /\ \A k \in 1..envCount : k \in DOMAIN envVars /\ envVars[k] # <<>>

\* an empty fragment between two entries, the last one unterminated
C29_Witness ==
    /\ pc = "env_done"
    /\ rc = 0
    /\ BytesRead = <<LetterA, NUL, NUL, LetterA>>
    /\ envCount = 2
    /\ Len(envVars) = 2

\* a macOS call has returned: only the KERN_PROCARGS2 buffer carries an
\* argument count
MacEnvDone == pc = "env_done" /\ rc = 0 /\ envArgc > 0

\* C23: on macOS the reader skips the path, the padding and exactly argc
\* argument strings, an empty argument included, and returns exactly the
\* strings after them that contain '=', up to the first empty string, in
\* order; no argument string is returned as an entry.
C23_EnvironmentAfterArgs ==
    MacEnvDone =>
        /\ envVars = SelectSeq(envSrc.envl, HasEq)
        /\ envCount = Len(envVars)

\* C3: every returned entry, split at its first '=', has a non-empty key:
\* it contains '=' and does not start with it.
C3_NonEmptyKey ==
    (pc = "env_done" /\ rc = 0) =>
        \A k \in 1..Len(envVars) :
            HasEq(envVars[k]) /\ envVars[k][1] # EQ

----------------------------------------------------------------------------
(* Process information provider, Linux: platform_get_process_info         *)

MAX_CMDLINE == 1024
Space == 32

\* length of a modelled cmdline file at most
MaxCmdLen == 4

\* a field of the stat record: a number, the parenthesised name, a single
\* character, or text the conversion at its place rejects
StatInt(v) == [kind |-> "int", val |-> v, str |-> ""]
StatName(n) == [kind |-> "name", val |-> 0, str |-> n]
StatChar(c) == [kind |-> "char", val |-> 0, str |-> c]
StatJunk == [kind |-> "junk", val |-> 0, str |-> "?"]

\* the kinds the format of lines 319-320 expects, field by field
StatFormat == <<"int", "name", "char", "int">> \o [i \in 1..17 |-> "int"]
              \o <<"int">>

GoodStat(pid, ppid, start) ==
    <<StatInt(pid), StatName("sshd"), StatChar("S"), StatInt(ppid)>>
    \o [i \in 1..17 |-> StatInt(0)] \o <<StatInt(start)>>

StatFiles ==
    LET good == GoodStat(7, 1, 250)
    IN {NoFile, File(good), File(GoodStat(1, 0, 0))}
       \cup {File(SubSeq(good, 1, k)) : k \in {0, 3, 21}}
       \cup {File([good EXCEPT ![i] = StatJunk]) : i \in {1, 2, 4, 10, 22}}

\* fscanf over the fields: how many fields convert before the first that
\* does not, and the number of assignments made on the way (the suppressed
\* conversions assign nothing)
RECURSIVE StatConverted(_, _)
StatConverted(fields, i) ==
    IF i > Len(StatFormat) \/ i > Len(fields) THEN i - 1
    ELSE IF fields[i].kind # StatFormat[i] THEN i - 1
    ELSE StatConverted(fields, i + 1)

StatAssigned(fields) ==
    Cardinality({i \in 1..StatConverted(fields, 1) : i \in {2, 3, 4, 22}})

\* the test that accepts a stat record on any assignment
StatParsedLoose(assigned) == assigned >= 1

\* line 321: all four values were assigned
StatParsed(assigned) == assigned = 4

Labelled(label, val) == [label |-> label, val |-> val]

BootFiles == {NoFile,
              File(<<Labelled("cpu", <<1>>)>>),
              File(<<Labelled("cpu", <<1>>), Labelled("btime", <<1, 0, 0, 0>>)>>),
              File(<<Labelled("btime", <<0>>)>>)}
TicksPerSec == {100, -1}

StatusFiles ==
    {NoFile,
     File(<<Labelled("Name", <<>>), Labelled("Uid", <<1, 0, 0, 0>>),
            Labelled("VmSize", <<2, 0, 4, 8>>), Labelled("VmRSS", <<5, 1, 2>>)>>),
     File(<<Labelled("Name", <<>>), Labelled("Uid", <<0>>)>>)}

CmdFiles == {NoFile} \cup
            {File(q) : q \in SeqsUpTo({NUL, LetterA, Space}, MaxCmdLen)}

\* lines 335-340: the value of the first btime line, 0 when there is none
RECURSIVE BootTime(_)
BootTime(lines) ==
    IF lines = <<>> THEN 0
    ELSE IF Head(lines).label = "btime" THEN DecVal(Head(lines).val)
    ELSE BootTime(Tail(lines))

\* lines 359-367: the last value of a labelled line, the old value without one
RECURSIVE StatusField(_, _, _)
StatusField(lines, label, old) ==
    IF lines = <<>> THEN old
    ELSE StatusField(Tail(lines), label,
                     IF Head(lines).label = label
                     THEN DecVal(Head(lines).val) ELSE old)

\* get_username_from_uid: the passwd name, the decimal uid without one
UserName(uid) ==
    IF uid = 0 THEN [name |-> "root", num |-> <<>>]
    ELSE [name |-> "", num |-> Digits(uid)]

\* lines 383-393: NULs become spaces, trailing spaces are cut
RECURSIVE TrimTrailing(_)
TrimTrailing(str) ==
    IF str # <<>> /\ str[Len(str)] = Space
    THEN TrimTrailing(SubSeq(str, 1, Len(str) - 1))
    ELSE str

CmdlineOfUntrimmed(bytes) ==
    [i \in 1..Len(bytes) |-> IF bytes[i] = NUL THEN Space ELSE bytes[i]]

CmdlineOf(bytes) ==
    LET n    == IF Len(bytes) < MAX_CMDLINE - 1 THEN Len(bytes)
                ELSE MAX_CMDLINE - 1
        read == SubSeq(bytes, 1, n)
    IN TrimTrailing([i \in 1..n |-> IF read[i] = NUL THEN Space ELSE read[i]])

\* memset(info, 0, sizeof(*info))
ZeroInfo == [pid |-> 0, ppid |-> 0, name |-> "", cmdline |-> <<>>,
             username |-> [name |-> "", num |-> <<>>], state |-> "",
             vsz |-> 0, rss |-> 0, uid |-> 0, start_time |-> 0]

\* lines 304-305 and 578-579: the record is cleared and pid is the argument
InfoAtEntryNoPid(p) == ZeroInfo

InfoAtEntry(p) == [ZeroInfo EXCEPT !.pid = p]

InfoVarsInit ==
    /\ askPid = 0
    /\ statFile = NoFile
    /\ bootFile = NoFile
    /\ tps = 0
    /\ statusFile = NoFile
    /\ cmdFile = NoFile
    /\ ticks = 0
    /\ info = ZeroInfo

\* lines 303-305
InfoCall ==
    /\ pc = "idle"
    /\ UNCHANGED extVars
    /\ \E p \in {1, 7}, sf \in StatFiles, bf \in BootFiles, t \in TicksPerSec,
          uf \in StatusFiles, cf \in CmdFiles :
         /\ askPid' = p
         /\ statFile' = sf
         /\ bootFile' = bf
         /\ tps' = t
         /\ statusFile' = uf
         /\ cmdFile' = cf
         /\ info' = InfoAtEntry(p)
    /\ pc' = "info_stat"
    /\ UNCHANGED <<rc, treeVars, portVars, envVarsAll, ticks>>

\* lines 307-327
InfoStat ==
    /\ pc = "info_stat"
    /\ UNCHANGED extVars
    /\ LET got    == IF statFile.open
                     THEN StatConverted(statFile.lines, 1) ELSE 0
           \* what fscanf stored into info before it stopped
           stored == [info EXCEPT
                        !.state = IF got >= 3 THEN statFile.lines[3].str ELSE @,
                        !.ppid = IF got >= 4 THEN statFile.lines[4].val ELSE @]
       IN IF ~statFile.open \/ ~StatParsed(StatAssigned(statFile.lines))
          THEN /\ rc' = -1
               /\ pc' = "info_done"
               /\ info' = stored
               /\ UNCHANGED ticks
          ELSE /\ info' = [stored EXCEPT
                             !.name = IF got >= 2 THEN statFile.lines[2].str
                                      ELSE @]
               /\ ticks' = IF got >= 22 THEN statFile.lines[22].val ELSE 0
               /\ pc' = "info_btime"
               /\ UNCHANGED rc
    /\ UNCHANGED <<treeVars, portVars, envVarsAll, askPid, statFile, bootFile,
                   tps, statusFile, cmdFile>>

\* lines 346-350
StartTimeTicksOnly(boot_time, starttime_ticks, ticks_per_sec) ==
    IF ticks_per_sec > 0 THEN starttime_ticks \div ticks_per_sec ELSE 0

StartTime(boot_time, starttime_ticks, ticks_per_sec) ==
    IF ticks_per_sec > 0 /\ boot_time > 0
    THEN boot_time + (starttime_ticks \div ticks_per_sec) ELSE 0

\* lines 329-350
InfoStartTime ==
    /\ pc = "info_btime"
    /\ UNCHANGED extVars
    /\ LET boot_time == IF bootFile.open THEN BootTime(bootFile.lines) ELSE 0
       IN info' = [info EXCEPT !.start_time = StartTime(boot_time, ticks, tps)]
    /\ pc' = "info_status"
    /\ UNCHANGED <<rc, treeVars, portVars, envVarsAll, askPid, statFile,
                   bootFile, tps, statusFile, cmdFile, ticks>>

\* lines 352-372
InfoStatus ==
    /\ pc = "info_status"
    /\ UNCHANGED extVars
    /\ LET lines == IF statusFile.open THEN statusFile.lines ELSE <<>>
           uid   == StatusField(lines, "Uid", info.uid)
       IN info' = [info EXCEPT !.uid = uid,
                               !.vsz = StatusField(lines, "VmSize", info.vsz),
                               !.rss = StatusField(lines, "VmRSS", info.rss),
                               !.username = UserName(uid)]
    /\ pc' = "info_cmdline"
    /\ UNCHANGED <<rc, treeVars, portVars, envVarsAll, askPid, statFile,
                   bootFile, tps, statusFile, cmdFile, ticks>>

\* lines 374-398
InfoCmdline ==
    /\ pc = "info_cmdline"
    /\ UNCHANGED extVars
    /\ info' = IF cmdFile.open
               THEN [info EXCEPT !.cmdline = CmdlineOf(cmdFile.lines)]
               ELSE info
    /\ rc' = 0
    /\ pc' = "info_done"
    /\ UNCHANGED <<treeVars, portVars, envVarsAll, askPid, statFile, bootFile,
                   tps, statusFile, cmdFile, ticks>>

NextInfo == InfoCall \/ InfoStat \/ InfoStartTime \/ InfoStatus \/ InfoCmdline

\* macOS: proc_pidinfo(PROC_PIDTBSDINFO), proc_pidpath and
\* proc_pidinfo(PROC_PIDTASKINFO)
NoBsd == [ok |-> FALSE, pbi_pid |-> 0, pbi_ppid |-> 0, pbi_uid |-> 0,
          pbi_status |-> 0, pbi_name |-> "", pbi_start_tvsec |-> 0,
          path |-> NoFile, task |-> [ok |-> FALSE, virt |-> 0, res |-> 0]]

BsdInfos ==
    {NoBsd} \cup
    [ok : {TRUE}, pbi_pid : {1, 7}, pbi_ppid : {0, 1}, pbi_uid : {0, 1000},
     pbi_status : {2, 5, 9}, pbi_name : {"launchd"},
     pbi_start_tvsec : {0, 1700000000},
     path : {NoFile, File(<<LetterA>>)},
     task : {[ok |-> FALSE, virt |-> 0, res |-> 0],
             [ok |-> TRUE, virt |-> 8192, res |-> 2048]}]

\* lines 592-611
BsdState(status) ==
    CASE status = 1 -> "I"
      [] status = 2 -> "R"
      [] status = 3 -> "S"
      [] status = 4 -> "T"
      [] status = 5 -> "Z"
      [] OTHER -> "?"

\* lines 577-579
InfoCallMac ==
    /\ pc = "idle"
    /\ \E p \in {1, 7}, b \in BsdInfos :
         /\ askPid' = p
         /\ bsd' = b
         /\ info' = InfoAtEntry(p)
    /\ pc' = "info_bsd"
    /\ UNCHANGED <<rc, treeVars, portVars, envVarsAll, statFile, bootFile, tps,
                   statusFile, cmdFile, ticks, allVars, killVars, cliVars>>

\* lines 581-634
InfoBsdMac ==
    /\ pc = "info_bsd"
    /\ IF ~bsd.ok
       THEN /\ rc' = -1
            /\ UNCHANGED info
       ELSE /\ rc' = 0
            /\ info' = [info EXCEPT
                          !.ppid = bsd.pbi_ppid,
                          !.uid = bsd.pbi_uid,
                          !.state = BsdState(bsd.pbi_status),
                          !.name = bsd.pbi_name,
                          !.start_time = bsd.pbi_start_tvsec,
                          !.username = UserName(bsd.pbi_uid),
                          !.cmdline = IF bsd.path.open THEN bsd.path.lines
                                      ELSE @,
                          !.vsz = IF bsd.task.ok THEN bsd.task.virt \div 1024
                                  ELSE @,
                          !.rss = IF bsd.task.ok THEN bsd.task.res \div 1024
                                  ELSE @]
    /\ pc' = "bsd_done"
    /\ UNCHANGED <<treeVars, portVars, envVarsAll, askPid, statFile, bootFile,
                   tps, statusFile, cmdFile, ticks, bsd, allVars, killVars,
                   cliVars>>

NextInfoMac == InfoCallMac \/ InfoBsdMac

\* the stat record holds all 22 fields the format reads, each of its kind
StatRecordValid ==
    /\ statFile.open
    /\ Len(statFile.lines) >= 22
    /\ \A i \in 1..22 : statFile.lines[i].kind = StatFormat[i]

\* C10: the call fails exactly when the stat record cannot be opened or does
\* not parse; with a valid stat record a missing status file leaves uid, vsz
\* and rss at 0, a missing boot-time file leaves start_time at 0 and a missing
\* cmdline file leaves cmdline empty, and the call succeeds.
C10_PrimaryMandatory ==
    pc = "info_done" =>
        /\ rc \in {0, -1}
        /\ (rc = -1) <=> ~StatRecordValid
        /\ rc = 0 =>
             /\ ~statusFile.open =>
                  info.uid = 0 /\ info.vsz = 0 /\ info.rss = 0
             /\ ~bootFile.open => info.start_time = 0
             /\ ~cmdFile.open => info.cmdline = <<>>

\* a valid stat record with none of the secondary files
C10_Witness ==
    /\ pc = "info_done"
    /\ rc = 0
    /\ StatRecordValid
    /\ ~statusFile.open
    /\ ~bootFile.open
    /\ ~cmdFile.open
    /\ info.name = "sshd"

----------------------------------------------------------------------------
(* Process enumeration: platform_get_all_processes                         *)

\* entries delivered by one enumeration
MaxDir == 3

\* line 836
InitialCapacity == 100

\* a directory entry of /proc: its name starts with a digit or not, and the
\* digits atoi reads from it; on macOS an entry is the p_pid of a kinfo_proc
DirEntry(numeric, text) == [numeric |-> numeric, text |-> text]
DirEntries ==
    {DirEntry(FALSE, <<>>), DirEntry(TRUE, <<0>>)} \cup
    {DirEntry(TRUE, Digits(p)) : p \in Pids}

\* the processes that exist when the enumeration starts
LiveTables == [Pids -> {NotFound, [found |-> TRUE, ppid |-> 1]}]

\* an entry that names a process names one that exists at listing time
ListedFrom(t, q) ==
    /\ \A i \in 1..Len(q) :
         q[i].numeric /\ DecVal(q[i].text) > 0 => t[DecVal(q[i].text)].found
    /\ \A i, j \in 1..Len(q) : q[i] = q[j] => i = j

\* lines 842-849: the entry is taken as a pid
EntryIsPid(os, e) ==
    IF os = "linux" THEN e.numeric /\ DecVal(e.text) > 0 ELSE TRUE

\* lines 858-860 and 895-897
CountAfterAlways(count, res) == count + 1

CountAfter(count, res) == IF res = 0 THEN count + 1 ELSE count

\* platform_get_process_info writing into a slot: cleared, pid stored, and
\* the rest filled in when the process is still there
QueryInto(t, p) ==
    LET snap == GetInfo(t, p)
    IN IF snap.found
       THEN [res |-> 0, slot |-> [InfoAtEntry(p) EXCEPT !.ppid = snap.ppid,
                                                       !.state = "S"]]
       ELSE [res |-> -1, slot |-> InfoAtEntry(p)]

AllVarsInit ==
    /\ allOs = "linux"
    /\ listing = NoFile
    /\ dirIx = 0
    /\ procs = <<>>
    /\ procCount = 0
    /\ allCap = 0
    /\ qlog = <<>>

\* lines 825-827
AllCall ==
    /\ pc = "idle"
    /\ \E os \in {"linux", "macos"}, t \in LiveTables,
          f \in {NoFile} \cup {File(q) : q \in SeqsUpTo(DirEntries, MaxDir)} :
         /\ ListedFrom(t, f.lines)
         /\ os = "macos" => \A i \in 1..Len(f.lines) : f.lines[i].numeric
         /\ allOs' = os
         /\ ptable' = t
         /\ listing' = f
    /\ procs' = <<>>
    /\ procCount' = 0
    /\ pc' = "all_open"
    /\ UNCHANGED <<rc, frames, nodes, portVars, envVarsAll, infoVars, bsd,
                   killVars, cliVars, dirIx, allCap, qlog>>

\* lines 831-837 and 867-888
AllOpen ==
    /\ pc = "all_open"
    /\ IF ~listing.open
       THEN /\ rc' = -1
            /\ pc' = "all_done"
            /\ UNCHANGED <<dirIx, allCap>>
       ELSE /\ allCap' = IF allOs = "linux" THEN InitialCapacity
                         ELSE Len(listing.lines)
            /\ dirIx' = 1
            /\ pc' = "all_step"
            /\ UNCHANGED rc
    /\ UNCHANGED <<treeVars, portVars, envVarsAll, infoVars, bsd, killVars,
                   cliVars, allOs, listing, procs, procCount, qlog>>

\* one turn of the loop, lines 840-861 and 891-898; the slot written is
\* (*processes)[*count]
AllStep ==
    /\ pc = "all_step"
    /\ IF dirIx > Len(listing.lines)
       THEN /\ rc' = 0
            /\ pc' = "all_done"
            /\ UNCHANGED <<dirIx, procs, procCount, allCap, qlog>>
       ELSE LET e == listing.lines[dirIx]
                p == DecVal(e.text)
                q == QueryInto(ptable, p)
            IN /\ dirIx' = dirIx + 1
               /\ pc' = "all_step"
               /\ UNCHANGED rc
               /\ IF ~EntryIsPid(allOs, e)
                  THEN UNCHANGED <<procs, procCount, allCap, qlog>>
                  ELSE /\ allCap' = IF allOs = "linux" /\ procCount >= allCap
                                    THEN allCap * 2 ELSE allCap
                       /\ procs' = SubSeq(procs, 1, procCount) \o <<q.slot>>
                       /\ procCount' = CountAfter(procCount, q.res)
                       /\ qlog' = Append(qlog, [pid |-> p, res |-> q.res,
                                                slot |-> q.slot])
    /\ UNCHANGED <<treeVars, portVars, envVarsAll, infoVars, bsd, killVars,
                   cliVars, allOs, listing>>

\* a listed process exits while the enumeration runs
ProcessExits ==
    /\ pc \in {"all_open", "all_step"}
    /\ \E p \in Pids :
         /\ ptable[p].found
         /\ ptable' = [ptable EXCEPT ![p] = NotFound]
    /\ UNCHANGED <<pc, rc, frames, nodes, portVars, envVarsAll, infoVars,
                   extVars>>

NextAll == AllCall \/ AllOpen \/ AllStep \/ ProcessExits

\* the list handed back: the first *count slots
ProcessList == SubSeq(procs, 1, procCount)

\* the listed entries that name a pid, in enumeration order
ListedPids ==
    LET IsPid(e) == EntryIsPid(allOs, e)
        es == SelectSeq(listing.lines, IsPid)
    IN [i \in 1..Len(es) |-> DecVal(es[i].text)]

\* the calls that succeeded, in the order made
Succeeded ==
    LET Ok(c) == c.res = 0
    IN SelectSeq(qlog, Ok)

\* C14: with processes exiting between listing and query the enumeration
\* returns success; every listed pid is queried once, in order; the list holds
\* exactly the snapshots of the queries that succeeded, in that order, and
\* nothing of a query that failed.
C14_OneSnapshotPerSuccess ==
    (pc = "all_done" /\ listing.open) =>
        /\ rc = 0
        /\ [i \in 1..Len(qlog) |-> qlog[i].pid] = ListedPids
        /\ ProcessList = [i \in 1..Len(Succeeded) |-> Succeeded[i].slot]
        /\ \A i \in 1..Len(ProcessList) : ProcessList[i].state # ""

\* a listed process exited before its query and a later one was recorded
C14_Witness ==
    /\ pc = "all_done"
    /\ rc = 0
    /\ Len(qlog) = 3
    /\ qlog[1].res = 0
    /\ qlog[2].res = -1
    /\ qlog[3].res = 0
    /\ procCount = 2
    /\ ProcessList[2].pid = qlog[3].pid

----------------------------------------------------------------------------
(* Interactive termination: prompt_kill_process                            *)

SIGTERM == 15

\* what getchar can deliver, EOF included
Keys == {"k", "K", "q", "Q", "y", "x", "\n", " ", "EOF"}

\* errno of kill(pid, SIGTERM), "" when it returns 0
KillErrnos == {"", "EPERM", "ESRCH", "EINVAL"}

\* line 278
KillRequestedUnlessQuit(ch) == ch \notin {"q", "Q"}

KillRequested(ch) == ch = "k" \/ ch = "K"

Signal(pid, sig) == [pid |-> pid, sig |-> sig]

KillVarsInit ==
    /\ killPid = 0
    /\ key = ""
    /\ killErrno = ""
    /\ stillThere = FALSE
    /\ signals = <<>>

\* lines 270-275: the prompt is printed and one key is read
PromptCall ==
    /\ pc = "idle"
    /\ \E p \in {1, 7, 4242}, ch \in Keys, e \in KillErrnos, s \in BOOLEAN :
         /\ killPid' = p
         /\ key' = ch
         /\ killErrno' = e
         /\ stillThere' = s
    /\ signals' = <<>>
    /\ pc' = "kill_key"
    /\ UNCHANGED <<rc, treeVars, portVars, envVarsAll, infoVars, bsd, allVars,
                   cliVars>>

\* lines 278-309: the kill() calls made and the value returned
PromptOutcome(pid, ch, e) ==
    IF KillRequested(ch)
    THEN IF e = ""
         THEN \* delivered; after 100 ms the process is probed with signal 0
              [signals |-> <<Signal(pid, SIGTERM), Signal(pid, 0)>>, rc |-> 0]
         ELSE [signals |-> <<Signal(pid, SIGTERM)>>, rc |-> -1]
    ELSE [signals |-> <<>>, rc |-> -1]

PromptAct ==
    /\ pc = "kill_key"
    /\ signals' = PromptOutcome(killPid, key, killErrno).signals
    /\ rc' = PromptOutcome(killPid, key, killErrno).rc
    /\ pc' = "kill_done"
    /\ UNCHANGED <<treeVars, portVars, envVarsAll, infoVars, bsd, allVars,
                   cliVars, killPid, key, killErrno, stillThere>>

NextKill == PromptCall \/ PromptAct

\* the kill() calls that carry a signal (signal 0 only probes)
SignalsSent ==
    LET Real(s) == s.sig # 0
    IN SelectSeq(signals, Real)

\* C15: the prompt sends a signal only when the key is 'k' or 'K', and then
\* SIGTERM, once, to the given pid; it returns 0 exactly when SIGTERM was
\* delivered and -1 otherwise: for 'q', 'Q', any other key, and when the
\* delivery fails.
C15_SignalOnlyOnK ==
    pc = "kill_done" =>
        /\ \A i \in 1..Len(signals) : signals[i].pid = killPid
        /\ SignalsSent = IF key \in {"k", "K"}
                         THEN <<Signal(killPid, SIGTERM)>> ELSE <<>>
        /\ key \notin {"k", "K"} => signals = <<>>
        /\ rc \in {0, -1}
        /\ (rc = 0) <=> (key \in {"k", "K"} /\ killErrno = "")

\* 'K' pressed and the kernel refuses the signal
C15_Witness ==
    /\ pc = "kill_done"
    /\ key = "K"
    /\ killErrno = "EPERM"
    /\ signals = <<Signal(4242, SIGTERM)>>
    /\ rc = -1

----------------------------------------------------------------------------
(* Command line: parse_int, parse_args, validate_args (src/src/args.c)     *)
(* An argument is the sequence of its characters.                          *)

\* options on the command line, --port and --pid counted with their value
MaxOpts == 3

OptHelp == <<"-", "-", "h", "e", "l", "p">>
OptAll == <<"-", "-", "a", "l", "l">>
OptPort == <<"-", "-", "p", "o", "r", "t">>
OptPid == <<"-", "-", "p", "i", "d">>
OptShort == <<"-", "-", "s", "h", "o", "r", "t">>
OptTree == <<"-", "-", "t", "r", "e", "e">>
OptJson == <<"-", "-", "j", "s", "o", "n">>
OptWarnings == <<"-", "-", "w", "a", "r", "n", "i", "n", "g", "s">>
OptEnv == <<"-", "-", "e", "n", "v">>
OptInteractive ==
    <<"-", "-", "i", "n", "t", "e", "r", "a", "c", "t", "i", "v", "e">>

Options == {OptHelp, OptAll, OptPort, OptPid, OptShort, OptTree, OptJson,
            OptWarnings, OptEnv, OptInteractive}

\* texts given where a number is expected
Values == {<<"2">>, <<"0">>, <<"2", "x">>, <<"6", "5", "5", "3", "6">>,
           <<"9", "9", "9", "9", "9", "9", "9", "9", "9", "9", "9">>}

\* one option, --port or --pid together with the text that follows it, or a
\* text where an option is expected
ArgItems ==
    {<<o>> : o \in Options} \cup {<<o, v>> : o \in {OptPort, OptPid}, v \in Values}
    \cup {<<(<<"2">>)>>}

RECURSIVE Flatten(_)
Flatten(items) ==
    IF items = <<>> THEN <<>> ELSE Head(items) \o Flatten(Tail(items))

ArgLists == {Flatten(items) : items \in SeqsUpTo(ArgItems, MaxOpts)}

DigitChars == <<"0", "1", "2", "3", "4", "5", "6", "7", "8", "9">>
IsDigit(c) == \E k \in 1..10 : DigitChars[k] = c
DigitOf(c) == (CHOOSE k \in 1..10 : DigitChars[k] = c) - 1

\* strtol: offset of the first character that is not white space
RECURSIVE SkipSpace(_, _)
SkipSpace(s, i) ==
    IF i <= Len(s) /\ s[i] = " " THEN SkipSpace(s, i + 1) ELSE i

\* strtol: offset after the run of digits that starts at i
RECURSIVE DigitsEnd(_, _)
DigitsEnd(s, i) ==
    IF i <= Len(s) /\ IsDigit(s[i]) THEN DigitsEnd(s, i + 1) ELSE i

\* magnitude of the digits s[i..j-1]; above reports how far it lies above
\* INT_MAX: 0 not at all, 1 by one (the magnitude of INT_MIN), 2 by more
RECURSIVE Magnitude(_, _, _, _)
Magnitude(s, i, j, acc) ==
    IF i >= j THEN acc
    ELSE LET d == DigitOf(s[i])
         IN Magnitude(s, i + 1, j,
              IF acc.above > 0 THEN [m |-> IntMax, above |-> 2]
              ELSE IF acc.m > (IntMax - d) \div 10
                   THEN [m |-> IntMax,
                         above |-> IF acc.m = 214748364 /\ d = 8 THEN 1 ELSE 2]
                   ELSE [m |-> acc.m * 10 + d, above |-> 0])

\* lines 94-110 with a 64-bit long: errno is cleared after strtol has run, so
\* the value tests alone detect a number that does not fit an int
parse_int(str) ==
    LET s0    == SkipSpace(str, 1)
        neg   == s0 <= Len(str) /\ str[s0] = "-"
        s1    == IF s0 <= Len(str) /\ str[s0] \in {"-", "+"} THEN s0 + 1 ELSE s0
        s2    == DigitsEnd(str, s1)
        mag   == Magnitude(str, s1, s2, [m |-> 0, above |-> 0])
        \* no conversion: endPtr is str itself
        endAt == IF s2 = s1 THEN 1 ELSE s2
        fits  == mag.above = 0 \/ (neg /\ mag.above = 1)
        val   == IF mag.above = 1 THEN -IntMax - 1
                 ELSE IF neg THEN -mag.m ELSE mag.m
    IN IF ~fits THEN [ok |-> FALSE, val |-> 0]
       ELSE IF endAt = 1 \/ endAt <= Len(str) THEN [ok |-> FALSE, val |-> 0]
       ELSE [ok |-> TRUE, val |-> val]

\* lines 140-143
NoArgs == [mode |-> "MODE_NONE", port |-> -1, pid |-> -1,
           short_output |-> FALSE, show_tree |-> FALSE, json_output |-> FALSE,
           warnings_only |-> FALSE, no_color |-> FALSE, show_env |-> FALSE,
           interactive |-> FALSE]

\* line 179
PortOutOfRangeAllowZero(v) == v < 0 \/ v > 65535

PortOutOfRange(v) == v < 1 \/ v > 65535

\* line 200
PidOutOfRange(v) == v < 1

\* the mode becomes m only if no mode is set yet
FirstMode(old, m) == IF old = "MODE_NONE" THEN m ELSE old

\* the loop of lines 152-227 from argument i on
RECURSIVE ParseFrom(_, _, _)
ParseFrom(av, i, a) ==
    IF i > Len(av) THEN [rc |-> 0, args |-> a]
    ELSE LET arg  == av[i]
             Fail == [rc |-> -1, args |-> a]
             Flag(b) == ParseFrom(av, i + 1, b)
         IN CASE arg = OptHelp ->
                   [rc |-> 0, args |-> [a EXCEPT !.mode = "MODE_HELP"]]
              [] arg = OptAll ->
                   Flag([a EXCEPT !.mode = FirstMode(@, "MODE_ALL")])
              [] arg = OptPort ->
                   IF i + 1 > Len(av) THEN Fail
                   ELSE LET r == parse_int(av[i + 1])
                        IN IF ~r.ok \/ PortOutOfRange(r.val) THEN Fail
                           ELSE ParseFrom(av, i + 2,
                                  [a EXCEPT !.port = r.val,
                                            !.mode = FirstMode(@, "MODE_PORT")])
              [] arg = OptPid ->
                   IF i + 1 > Len(av) THEN Fail
                   ELSE LET r == parse_int(av[i + 1])
                        IN IF ~r.ok \/ PidOutOfRange(r.val) THEN Fail
                           ELSE ParseFrom(av, i + 2,
                                  [a EXCEPT !.pid = r.val,
                                            !.mode = FirstMode(@, "MODE_PID")])
              [] arg = OptShort -> Flag([a EXCEPT !.short_output = TRUE])
              [] arg = OptTree -> Flag([a EXCEPT !.show_tree = TRUE])
              [] arg = OptJson -> Flag([a EXCEPT !.json_output = TRUE])
              [] arg = OptWarnings -> Flag([a EXCEPT !.warnings_only = TRUE])
              [] arg = OptEnv -> Flag([a EXCEPT !.show_env = TRUE])
              [] arg = OptInteractive -> Flag([a EXCEPT !.interactive = TRUE])
              [] OTHER -> Fail

\* lines 139-230; av is argv without the program name
parse_args(av) ==
    IF Len(av) = 0 THEN [rc |-> 0, args |-> [NoArgs EXCEPT !.mode = "MODE_HELP"]]
    ELSE ParseFrom(av, 1, NoArgs)

\* lines 275-283
output_formats(a) ==
    (IF a.short_output THEN 1 ELSE 0) + (IF a.json_output THEN 1 ELSE 0)
    + (IF a.show_tree THEN 1 ELSE 0) + (IF a.show_env THEN 1 ELSE 0)

\* line 285
TooManyFormatsAboveTwo(n) == n > 2

TooManyFormats(n) == n > 1

\* lines 316-319
InteractiveWithJsonAllowed(a) == FALSE

InteractiveWithJson(a) == a.interactive /\ a.json_output

\* lines 255-322
validate_args(a) ==
    IF a.mode = "MODE_NONE" THEN -1
    ELSE IF a.port # -1 /\ a.pid # -1 THEN -1
    ELSE IF a.mode = "MODE_ALL" /\ (a.port # -1 \/ a.pid # -1) THEN -1
    ELSE IF TooManyFormats(output_formats(a)) THEN -1
    ELSE IF a.show_env /\ a.mode # "MODE_PID" THEN -1
    ELSE IF a.show_tree /\ a.mode # "MODE_PID" THEN -1
    ELSE IF a.warnings_only /\ a.mode # "MODE_PORT" THEN -1
    ELSE IF a.interactive /\ a.mode # "MODE_PID" /\ a.mode # "MODE_PORT" THEN -1
    ELSE IF InteractiveWithJson(a) THEN -1
    ELSE 0

----------------------------------------------------------------------------
(* The program: main and its three handlers (src/src/main.c), with the     *)
(* output entry points they call                                           *)

EXIT_SUCCESS == 0
EXIT_FAILURE == 1

Printed(what, format) == [what |-> what, format |-> format]
Call(fn, arg, res) == [fn |-> fn, arg |-> arg, res |-> res]

\* utils.c line 271: the kill prompt has been written
PromptLine == Printed("prompt", "")

\* lines 27, 39, 52, 94, 133: if (query(...) < 0)
QueryFailedNever(res) == FALSE

QueryFailed(res) == res < 0

\* platform_get_process_env as a function of what the kernel hands out
LinuxEnv(src, sz) ==
    IF ~src.open THEN [rc |-> -1, count |-> 0, vars |-> <<>>]
    ELSE LET buf == SubSeq(src.lines, 1, sz) \o <<NUL>>
         IN [rc |-> 0, count |-> CountPass(buf, sz),
             vars |-> SplitPass(buf, sz, 0, 0)]

MacEnv(src, argc) ==
    IF ~src.open THEN [rc |-> -1, count |-> 0, vars |-> <<>>]
    ELSE LET afterPath == StrLen(src.lines, 0) + 1
             afterPad  == SkipPadding(src.lines, afterPath)
             envStart  == SkipArgs(src.lines, afterPad, argc)
             found     == CollectEnv(src.lines, envStart)
         IN [rc |-> 0, count |-> Len(found), vars |-> found]

\* the environment sources a run of the program meets: refused, empty, one
\* variable; read whole or, as /proc files report size 0, not at all
RunEnvSources ==
    UNION {{[os |-> "linux", src |-> f, sz |-> sz, argc |-> 0] :
               sz \in {0, Len(f.lines)}} :
           f \in {NoFile, File(<<>>), File(StrAeqA \o <<NUL>>)}} \cup
    {[os |-> "macos", src |-> [open |-> s.open, lines |-> s.lines], sz |-> 0,
      argc |-> s.argc] :
        s \in {[open |-> FALSE, argc |-> 0, lines |-> <<>>],
               ProcArgs(<<StrA>>, 0, <<>>), ProcArgs(<<StrA>>, 0, <<StrAeqA>>)}}

\* what platform_get_port_connections hands back for a port: an error, no
\* record, or records on that port with pid -1 where no owner was found
PortRecord(p, pid, st) == [local_port |-> p, pid |-> pid, state |-> st]
PortOutcomes(p) ==
    {[rc |-> -1, conns |-> <<>>], [rc |-> 0, conns |-> <<>>],
     [rc |-> 0, conns |-> <<PortRecord(p, 2, "LISTEN")>>],
     [rc |-> 0, conns |-> <<PortRecord(p, -1, "LISTEN"),
                            PortRecord(p, 2, "LISTEN")>>],
     [rc |-> 0, conns |-> <<PortRecord(p, 3, "LISTEN"),
                            PortRecord(p, 2, "LISTEN")>>],
     \* one process with its listening socket and an accepted connection
     [rc |-> 0, conns |-> <<PortRecord(p, 2, "LISTEN"),
                            PortRecord(p, 2, "ESTABLISHED")>>]}

\* the processes platform_get_all_processes hands back: those listed that
\* still answer
AllOutcome(t, f) ==
    IF ~f.open THEN [rc |-> -1, list |-> <<>>]
    ELSE LET Answers(e) == e.numeric /\ GetInfo(t, DecVal(e.text)).found
             es == SelectSeq(f.lines, Answers)
         IN [rc |-> 0,
             list |-> [i \in 1..Len(es) |->
                          QueryInto(t, DecVal(es[i].text)).slot]]

\* part_003 lines 131-137, 757-763: json, else short, else normal
ProcessFormat(a) ==
    IF a.json_output THEN "json" ELSE IF a.short_output THEN "short"
    ELSE "normal"

\* something written about the record of process pid
Line(what, format, pid) == [what |-> what, format |-> format, pid |-> pid]

\* what platform_get_process_info answers the output layer for a record's
\* pid; the owner may have become a zombie
Snapshot(t, z, pid) ==
    LET q == QueryInto(t, pid)
    IN [res |-> q.res,
        proc |-> [q.slot EXCEPT !.state = IF z THEN "Z" ELSE q.slot.state]]

\* the queries of the loops of part_003 lines 408-410, 444-446, 492-494,
\* 539-541: one for each record with pid > 0
InfoCalls(t, cs) ==
    LET owned == SelectSeq(cs, LAMBDA c : c.pid > 0)
    IN [i \in 1..Len(owned) |->
          Call("platform_get_process_info", owned[i].pid,
               QueryInto(t, owned[i].pid).res)]

\* part_003 lines 359-371
has_warning(conn, proc) ==
    \/ proc.uid = 0 /\ conn.local_port >= 1024
    \/ proc.state = "Z"

\* part_003 lines 391-428
RECURSIVE output_port_normal(_, _, _)
output_port_normal(t, z, cs) ==
    IF cs = <<>> THEN <<>>
    ELSE LET conn == Head(cs)
             own  == Snapshot(t, z, conn.pid)
         IN <<Line("connection", "normal", conn.pid)>>
            \o (IF conn.pid > 0
                THEN IF own.res = 0
                     THEN <<Line("owner", "normal", own.proc.pid)>>
                          \o (IF has_warning(conn, own.proc)
                              THEN <<Line("warning", "normal", own.proc.pid)>>
                              ELSE <<>>)
                     ELSE <<>>
                ELSE <<Line("unknown", "normal", conn.pid)>>)
            \o output_port_normal(t, z, Tail(cs))

\* part_003 lines 441-455
RECURSIVE output_port_short(_, _)
output_port_short(t, cs) ==
    IF cs = <<>> THEN <<>>
    ELSE LET conn == Head(cs)
             own  == Snapshot(t, FALSE, conn.pid)
         IN (IF conn.pid > 0
             THEN IF own.res = 0
                  THEN <<Line("owner", "short", own.proc.pid)>>
                  ELSE <<>>
             ELSE <<Line("unknown", "short", conn.pid)>>)
            \o output_port_short(t, Tail(cs))

\* part_003 lines 476-515
RECURSIVE output_port_json(_, _)
output_port_json(t, cs) ==
    IF cs = <<>> THEN <<>>
    ELSE LET conn == Head(cs)
             own  == Snapshot(t, FALSE, conn.pid)
         IN <<Line("connection", "json", conn.pid)>>
            \o (IF conn.pid > 0 /\ own.res = 0
                THEN <<Line("owner", "json", own.proc.pid)>> ELSE <<>>)
            \o output_port_json(t, Tail(cs))

\* part_003 lines 536-559: the warnings of the records one by one
RECURSIVE RecordWarnings(_, _, _)
RecordWarnings(t, z, cs) ==
    IF cs = <<>> THEN <<>>
    ELSE LET conn == Head(cs)
             own  == Snapshot(t, z, conn.pid)
         IN (IF conn.pid > 0 /\ own.res = 0 /\ has_warning(conn, own.proc)
             THEN (IF own.proc.uid = 0 /\ conn.local_port >= 1024
                   THEN <<Line("root", "warnings", own.proc.pid)>> ELSE <<>>)
                  \o (IF own.proc.state = "Z"
                      THEN <<Line("zombie", "warnings", own.proc.pid)>>
                      ELSE <<>>)
             ELSE <<>>)
            \o RecordWarnings(t, z, Tail(cs))

\* part_003 line 562: if (count > 1)
SeveralListeners(cs) == Len(cs) > 1

\* part_003 lines 533-570
output_port_warnings(t, z, cs) ==
    LET found == RecordWarnings(t, z, cs)
    IN found
       \o (IF SeveralListeners(cs)
           THEN <<Printed("multiple", "warnings")>> ELSE <<>>)
       \o (IF found = <<>> /\ ~SeveralListeners(cs)
           THEN <<Printed("no warnings", "warnings")>> ELSE <<>>)

\* part_003 lines 601-609: the header of the format, when it has one, and
\* what the format writes for the records
PortOutput(a, t, z, cs) ==
    IF a.warnings_only
    THEN <<Printed("port", "warnings")>> \o output_port_warnings(t, z, cs)
    ELSE IF a.json_output
    THEN <<Printed("port", "json")>> \o output_port_json(t, cs)
    ELSE IF a.short_output THEN output_port_short(t, cs)
    ELSE <<Printed("port", "normal")>> \o output_port_normal(t, z, cs)

\* part_003 line 596
NoConnectionsNever(count) == FALSE

NoConnections(count) == count = 0

CliVarsInit ==
    /\ argv = <<>>
    /\ args = NoArgs
    /\ exitCode = -1
    /\ out = <<>>
    /\ calls = <<>>

\* the program is started with an argument list
MainCall ==
    /\ pc = "idle"
    /\ \E av \in ArgLists : argv' = av
    /\ pc' = "main_parse"
    /\ UNCHANGED <<rc, treeVars, portVars, envVarsAll, infoVars, bsd, allVars,
                   killVars, args, exitCode, out, calls>>

\* main.c lines 177-194
MainParse ==
    /\ pc = "main_parse"
    /\ LET r == parse_args(argv)
       IN /\ args' = r.args
          /\ IF r.rc < 0
             THEN /\ exitCode' = EXIT_FAILURE
                  /\ out' = <<Printed("usage", "")>>
                  /\ pc' = "main_exit"
             ELSE IF r.args.mode = "MODE_HELP"
             THEN /\ exitCode' = EXIT_SUCCESS
                  /\ out' = <<Printed("usage", "")>>
                  /\ pc' = "main_exit"
             ELSE /\ pc' = "main_validate"
                  /\ UNCHANGED <<exitCode, out>>
    /\ UNCHANGED <<rc, treeVars, portVars, envVarsAll, infoVars, bsd, allVars,
                   killVars, argv, calls>>

\* main.c lines 196-212; platform_init returns 0
MainValidate ==
    /\ pc = "main_validate"
    /\ IF validate_args(args) < 0
       THEN /\ exitCode' = EXIT_FAILURE
            /\ out' = <<Printed("usage", "")>>
            /\ pc' = "main_exit"
       ELSE /\ pc' = "main_run"
            /\ UNCHANGED <<exitCode, out>>
    /\ UNCHANGED <<rc, treeVars, portVars, envVarsAll, infoVars, bsd, allVars,
                   killVars, argv, args, calls>>

\* main.c lines 216-218 and 24-66, part_003 lines 130-145
HandlePid ==
    /\ pc = "main_run"
    /\ args.mode = "MODE_PID"
    /\ \E t \in LiveTables, e \in RunEnvSources, gone \in BOOLEAN,
          ch \in Keys, ke \in {"", "EPERM"} :
         LET q     == QueryInto(t, args.pid)
             first == Call("platform_get_process_info", args.pid, q.res)
             env   == IF e.os = "linux" THEN LinuxEnv(e.src, e.sz)
                      ELSE MacEnv(e.src, e.argc)
             \* the tree query asks for the process again
             tree  == IF gone THEN -1 ELSE 0
             asks  == args.interactive /\ ~args.json_output
             prompt == PromptOutcome(q.slot.pid, ch, ke)
         IN /\ ptable' = t
            /\ IF QueryFailed(q.res)
               THEN /\ calls' = <<first>>
                    /\ out' = <<>>
                    /\ exitCode' = EXIT_FAILURE
                    /\ UNCHANGED <<envVarsAll, allOs, killVars>>
               ELSE IF args.show_env
               THEN /\ allOs' = e.os
                    /\ envSrc' = e.src
                    /\ envSize' = e.sz
                    /\ envArgc' = e.argc
                    /\ calls' = <<first, Call("platform_get_process_env",
                                              args.pid, env.rc)>>
                    /\ UNCHANGED <<envBuf, killVars>>
                    /\ IF QueryFailed(env.rc)
                       THEN /\ out' = <<>>
                            /\ exitCode' = EXIT_FAILURE
                            /\ UNCHANGED <<envVars, envCount>>
                       ELSE /\ envVars' = env.vars
                            /\ envCount' = env.count
                            /\ out' = <<Printed("env",
                                          IF args.json_output THEN "json"
                                          ELSE "normal")>>
                            /\ exitCode' = EXIT_SUCCESS
               ELSE IF args.show_tree
               THEN /\ calls' = <<first, Call("platform_get_process_tree",
                                              args.pid, tree)>>
                    /\ UNCHANGED <<envVarsAll, allOs, killVars>>
                    /\ IF QueryFailed(tree)
                       THEN /\ out' = <<>>
                            /\ exitCode' = EXIT_FAILURE
                       ELSE /\ out' = <<Printed("tree",
                                          IF args.json_output THEN "json"
                                          ELSE "normal")>>
                            /\ exitCode' = EXIT_SUCCESS
               ELSE /\ calls' = <<first>>
                    /\ out' = <<Printed("process", ProcessFormat(args))>>
                              \o (IF asks THEN <<PromptLine>> ELSE <<>>)
                    /\ exitCode' = EXIT_SUCCESS
                    /\ UNCHANGED <<envVarsAll, allOs>>
                    /\ IF asks
                       THEN /\ killPid' = q.slot.pid
                            /\ key' = ch
                            /\ killErrno' = ke
                            /\ signals' = prompt.signals
                            /\ UNCHANGED stillThere
                       ELSE UNCHANGED killVars
    /\ pc' = "main_exit"
    /\ UNCHANGED <<rc, frames, nodes, portVars, infoVars, bsd, listing, dirIx,
                   procs, procCount, allCap, qlog, argv, args>>

\* main.c lines 220-222 and 89-106, part_003 lines 594-623
HandlePort ==
    /\ pc = "main_run"
    /\ args.mode = "MODE_PORT"
    /\ \E res \in PortOutcomes(args.port), t \in LiveTables, z \in BOOLEAN,
          ch \in Keys, ke \in {"", "EPERM"} :
         LET query  == Call("platform_get_port_connections", args.port, res.rc)
             shown  == PortOutput(args, t, z, res.conns)
             asked  == <<query>> \o InfoCalls(t, res.conns)
             count  == Len(res.conns)
             asks   == args.interactive /\ ~args.json_output /\ count > 0
                       /\ res.conns[1].pid > 0
             q      == QueryInto(t, res.conns[1].pid)
             prompt == PromptOutcome(q.slot.pid, ch, ke)
         IN /\ port' = args.port
            /\ conns' = res.conns
            /\ IF QueryFailed(res.rc)
               THEN /\ calls' = <<query>>
                    /\ out' = <<>>
                    /\ exitCode' = EXIT_FAILURE
                    /\ UNCHANGED <<ptable, killVars>>
               ELSE IF NoConnections(count)
               THEN /\ calls' = <<query>>
                    /\ out' = <<>>
                    /\ exitCode' = EXIT_FAILURE
                    /\ UNCHANGED <<ptable, killVars>>
               ELSE /\ exitCode' = EXIT_SUCCESS
                    /\ ptable' = t
                    /\ IF asks
                       THEN /\ calls' = Append(asked,
                                          Call("platform_get_process_info",
                                               res.conns[1].pid, q.res))
                            /\ IF q.res = 0
                               THEN /\ out' = Append(shown, PromptLine)
                                    /\ killPid' = q.slot.pid
                                    /\ key' = ch
                                    /\ killErrno' = ke
                                    /\ signals' = prompt.signals
                                    /\ UNCHANGED stillThere
                               ELSE /\ out' = shown
                                    /\ UNCHANGED killVars
                       ELSE /\ calls' = asked
                            /\ out' = shown
                            /\ UNCHANGED killVars
    /\ pc' = "main_exit"
    /\ UNCHANGED <<rc, frames, nodes, netFiles, fdt, fileIx, lineNo, capacity,
                   allConns, scans, lsofOut, current, hasData, envVarsAll,
                   infoVars, bsd, allVars, argv, args>>

\* main.c lines 224-226 and 128-144, part_003 lines 750-766
HandleAll ==
    /\ pc = "main_run"
    /\ args.mode = "MODE_ALL"
    /\ \E t \in LiveTables,
          f \in {NoFile} \cup {File(q) : q \in SeqsUpTo(DirEntries, 2)} :
         LET res == AllOutcome(t, f)
         IN /\ ListedFrom(t, f.lines)
            /\ ptable' = t
            /\ listing' = f
            /\ procs' = res.list
            /\ procCount' = Len(res.list)
            /\ calls' = <<Call("platform_get_all_processes", 0, res.rc)>>
            /\ IF QueryFailed(res.rc) \/ Len(res.list) = 0
               THEN /\ out' = <<>>
                    /\ exitCode' = EXIT_FAILURE
               ELSE /\ out' = <<Printed("list", ProcessFormat(args))>>
                    /\ exitCode' = EXIT_SUCCESS
    /\ pc' = "main_exit"
    /\ UNCHANGED <<rc, frames, nodes, portVars, envVarsAll, infoVars, bsd,
                   allOs, dirIx, allCap, qlog, killVars, argv, args>>

NextMain ==
    MainCall \/ MainParse \/ MainValidate \/ HandlePid \/ HandlePort
    \/ HandleAll

\* the option occurs in the argument list
Occurs(opt) == \E i \in 1..Len(argv) : argv[i] = opt

\* parse_args and validate_args have both succeeded
Accepted == pc = "main_run"

\* the program has ended after one of the handlers ran
HandlerRan == pc = "main_exit" /\ calls # <<>>

\* the number of kill prompts written
Prompts == Len(SelectSeq(out, LAMBDA o : o = PromptLine))

\* C21: in PID mode with --interactive, when the process information was
\* obtained and shown, the kill prompt is written exactly once and after the
\* information, whichever output is selected (normal, --short, --tree,
\* --env).
C21_PromptAfterEveryOutput ==
    (pc = "main_exit" /\ args.mode = "MODE_PID" /\ args.interactive
     /\ calls # <<>> /\ exitCode = EXIT_SUCCESS) =>
        /\ Prompts = 1
        /\ Len(out) >= 2
        /\ out[Len(out)] = PromptLine

\* the port handler has shown the connections in conns
PortShown ==
    /\ pc = "main_exit"
    /\ args.mode = "MODE_PORT"
    /\ calls # <<>>
    /\ exitCode = EXIT_SUCCESS

\* the distinct owners the records name
Owners == {conns[k].pid : k \in 1..Len(conns)}

\* C22: with --warnings in port mode the 'Multiple processes' warning is
\* written only when the connections are owned by at least two distinct
\* processes; one process owning several records does not trigger it.
C22_MultipleMeansDistinctOwners ==
    (PortShown /\ args.warnings_only) =>
        ((\E i \in 1..Len(out) : out[i].what = "multiple")
            => Cardinality(Owners) >= 2)

\* the lines of the short format, one by one
ShortLines == SelectSeq(out, LAMBDA o : o.what \in {"owner", "unknown"})

\* C27: the short port output writes exactly one line for every record
\* handed to it: with the owner's pid when the owner was resolved, as
\* unknown otherwise, also when the record has a pid > 0 whose process has
\* exited by the time the output layer asks for it.
C27_OneShortLinePerRecord ==
    (PortShown /\ args.short_output /\ ~args.warnings_only
     /\ ~args.json_output) =>
        /\ Len(ShortLines) = Len(conns)
        /\ \A k \in 1..Len(conns) :
             IF conns[k].pid > 0 /\ GetInfo(ptable, conns[k].pid).found
             THEN ShortLines[k] = Line("owner", "short", conns[k].pid)
             ELSE ShortLines[k].what = "unknown"

\* C12: when the kernel refuses access to the environment source, the
\* environment query returns an error, never success with zero entries, and
\* the --pid --env run prints no environment and exits with failure.
C12_RefusedEnvIsError ==
    (/\ HandlerRan
     /\ Len(calls) = 2
     /\ calls[2].fn = "platform_get_process_env"
     /\ ~envSrc.open) =>
        /\ calls[2].res = -1
        /\ out = <<>>
        /\ exitCode = EXIT_FAILURE

\* --pid 2 --env on Linux with /proc/2/environ not to be opened
C12_Witness ==
    /\ HandlerRan
    /\ argv = <<OptPid, <<"2">>, OptEnv>>
    /\ allOs = "linux"
    /\ ~envSrc.open
    /\ calls[1].res = 0
    /\ calls[2] = Call("platform_get_process_env", 2, -1)
    /\ exitCode = EXIT_FAILURE

\* C16: in an accepted argument list exactly one of --port, --pid and --all
\* occurs; --all is not accepted together with --port or --pid in either
\* order.
C16_ModesExclusive ==
    Accepted =>
        Cardinality({o \in {OptPort, OptPid, OptAll} : Occurs(o)}) = 1

\* C17: in an accepted argument list at most one of --short, --json, --tree
\* and --env occurs, and at most one of the four flags is set.
C17_OneOutputFormat ==
    Accepted =>
        /\ Cardinality({o \in {OptShort, OptJson, OptTree, OptEnv} :
                            Occurs(o)}) <= 1
        /\ Cardinality({f \in {"short", "json", "tree", "env"} :
                            \/ f = "short" /\ args.short_output
                            \/ f = "json" /\ args.json_output
                            \/ f = "tree" /\ args.show_tree
                            \/ f = "env" /\ args.show_env}) <= 1

\* an accepted list that selects one format
C17_Witness ==
    /\ Accepted
    /\ argv = <<OptJson, OptAll, OptJson>>
    /\ args.json_output
    /\ ~args.short_output

\* C18: in an accepted argument list --env and --tree occur only in PID
\* mode, --warnings only in port mode, --interactive only in PID or port
\* mode, and --interactive never together with --json.
C18_FlagsFitMode ==
    Accepted =>
        /\ Occurs(OptEnv) => args.mode = "MODE_PID" /\ Occurs(OptPid)
        /\ Occurs(OptTree) => args.mode = "MODE_PID" /\ Occurs(OptPid)
        /\ Occurs(OptWarnings) => args.mode = "MODE_PORT" /\ Occurs(OptPort)
        /\ Occurs(OptInteractive) =>
              /\ args.mode \in {"MODE_PID", "MODE_PORT"}
              /\ Occurs(OptPid) \/ Occurs(OptPort)
              /\ ~Occurs(OptJson)

\* an accepted port-mode list with --warnings and --interactive
C18_Witness ==
    /\ Accepted
    /\ args.mode = "MODE_PORT"
    /\ Occurs(OptWarnings)
    /\ Occurs(OptInteractive)
    /\ args.warnings_only
    /\ args.interactive

\* the text is a run of decimal digits
IsDecimal(text) == Len(text) > 0 /\ \A i \in 1..Len(text) : IsDigit(text[i])

\* the number a decimal text denotes, 100000 standing for all above it
RECURSIVE Denotes(_)
Denotes(text) ==
    IF text = <<>> THEN 0
    ELSE LET v == Denotes(SubSeq(text, 1, Len(text) - 1)) * 10
                  + DigitOf(text[Len(text)])
         IN IF v > 100000 THEN 100000 ELSE v

\* argument i is --port or --pid and what follows is missing, is not a
\* decimal number or lies outside the range of the option
BadValueAt(i) ==
    /\ argv[i] \in {OptPort, OptPid}
    /\ \/ i = Len(argv)
       \/ ~IsDecimal(argv[i + 1])
       \/ Denotes(argv[i + 1]) < 1
       \/ argv[i] = OptPort /\ Denotes(argv[i + 1]) > 65535

\* C19: platform_get_port_connections is called only with a port in
\* 1..65535 and the PID handler calls platform_get_process_info only with a
\* pid of at least 1; a list with a port or pid outside the range, or with a
\* value that has trailing non-digit characters, is rejected before any
\* query is made (--help ahead of it ends the parse before it is read).
C19_QueriesInRange ==
    /\ \A k \in 1..Len(calls) :
         /\ calls[k].fn = "platform_get_port_connections" =>
               calls[k].arg >= 1 /\ calls[k].arg <= 65535
         /\ (calls[k].fn = "platform_get_process_info"
              /\ args.mode = "MODE_PID") => calls[k].arg >= 1
    /\ \A i \in 1..Len(argv) :
         BadValueAt(i) =>
            /\ calls = <<>>
            /\ pc # "main_run"
            /\ (pc = "main_exit" /\ \A j \in 1..(i - 1) : argv[j] # OptHelp)
                  => exitCode = EXIT_FAILURE

\* --interactive --port 65536 has been turned down
C19_Witness ==
    /\ pc = "main_exit"
    /\ argv = <<OptInteractive, OptPort, <<"6", "5", "5", "3", "6">>>>
    /\ BadValueAt(2)
    /\ calls = <<>>
    /\ exitCode = EXIT_FAILURE

\* C20: a port-mode run exits with success exactly when the port query
\* succeeded and returned at least one connection record; with no record
\* found it exits with failure.
C20_PortExitStatus ==
    (HandlerRan /\ calls[1].fn = "platform_get_port_connections") =>
        /\ exitCode \in {EXIT_SUCCESS, EXIT_FAILURE}
        /\ (exitCode = EXIT_SUCCESS) <=> (calls[1].res = 0 /\ Len(conns) >= 1)

\* the query succeeded and found nothing on the port
C20_Witness ==
    /\ HandlerRan
    /\ args.mode = "MODE_PORT"
    /\ calls = <<Call("platform_get_port_connections", 2, 0)>>
    /\ conns = <<>>
    /\ out = <<>>
    /\ exitCode = EXIT_FAILURE

\* the value of the boot-time line of /proc/stat, 0 when the file or the line
\* is missing
BootLineValue ==
    IF bootFile.open /\ \E i \in 1..Len(bootFile.lines) :
                           bootFile.lines[i].label = "btime"
    THEN LET i == CHOOSE k \in 1..Len(bootFile.lines) :
                     /\ bootFile.lines[k].label = "btime"
                     /\ \A j \in 1..(k - 1) : bootFile.lines[j].label # "btime"
         IN DecVal(bootFile.lines[i].val)
    ELSE 0

\* field 22 of the stat record
StartTicks == statFile.lines[22].val

\* C25: on Linux start_time is boot_time + floor(start_ticks /
\* ticks_per_second) when the boot-time line gave a positive value and
\* ticks_per_second is positive, and 0 otherwise; when not 0 it is not the
\* bare tick offset and not earlier than boot_time.
C25_StartTimeAbsolute ==
    (pc = "info_done" /\ rc = 0) =>
        /\ (BootLineValue > 0 /\ tps > 0) =>
              info.start_time = BootLineValue + (StartTicks \div tps)
        /\ ~(BootLineValue > 0 /\ tps > 0) => info.start_time = 0
        /\ info.start_time # 0 =>
              /\ info.start_time >= BootLineValue
              /\ info.start_time # StartTicks \div tps

\* boot time 1000, 250 ticks at 100 ticks per second
C25_Witness ==
    /\ pc = "info_done"
    /\ rc = 0
    /\ BootLineValue = 1000
    /\ tps = 100
    /\ StartTicks = 250
    /\ info.start_time = 1002

\* the bytes of the cmdline file with every NUL turned into a space
Spaced(bytes) ==
    [i \in 1..Len(bytes) |-> IF bytes[i] = NUL THEN Space ELSE bytes[i]]

\* C26: for a cmdline file of at most MAX_CMDLINE-1 bytes the snapshot's
\* cmdline is the content with every NUL replaced by a space and all
\* trailing spaces removed; it is empty for an empty file and for a file of
\* NULs only.
C26_CmdlineSpacedTrimmed ==
    (pc = "info_done" /\ rc = 0 /\ cmdFile.open
     /\ Len(cmdFile.lines) <= MAX_CMDLINE - 1) =>
        LET whole == Spaced(cmdFile.lines)
            kept  == Len(info.cmdline)
        IN /\ kept <= Len(whole)
           /\ info.cmdline = SubSeq(whole, 1, kept)
           /\ \A i \in (kept + 1)..Len(whole) : whole[i] = Space
           /\ kept > 0 => info.cmdline[kept] # Space
           /\ (\A i \in 1..Len(cmdFile.lines) : cmdFile.lines[i] = NUL)
                 => info.cmdline = <<>>

\* two arguments, each closed by its NUL
C26_Witness ==
    /\ pc = "info_done"
    /\ rc = 0
    /\ cmdFile = File(<<LetterA, NUL, LetterA, NUL>>)
    /\ info.cmdline = <<LetterA, Space, LetterA>>

\* the pid the kernel's own record carries: field 1 of the stat record, or
\* pbi_pid
RecordPid ==
    IF pc = "bsd_done" THEN bsd.pbi_pid
    ELSE IF statFile.open /\ Len(statFile.lines) >= 1 THEN statFile.lines[1].val
    ELSE 0

\* C11: whenever the process information query succeeds, the pid of the
\* snapshot is the pid that was asked for, whatever pid the kernel's record
\* carries.
C11_PidIsAskedPid ==
    pc \in {"info_done", "bsd_done"} /\ rc = 0 => info.pid = askPid

\* a successful Linux query whose stat record names another pid
C11_Witness ==
    /\ pc = "info_done"
    /\ rc = 0
    /\ askPid = 1
    /\ RecordPid = 7
    /\ info.pid = 1

----------------------------------------------------------------------------
(* Allocation helpers: safe_malloc, safe_calloc, safe_realloc, safe_strdup *)

\* the step about to run calls one of the helpers with a non-zero size
AllocatesNow ==
    \/ pc = "tree"
    \/ pc = "net_open" /\ netFiles[fileIx].open
    \/ pc = "net_line" /\ lineNo > Len(netFiles[fileIx].lines)
                       /\ Len(allConns) + Len(conns) > 0
    \/ pc = "net_line" /\ lineNo <= Len(netFiles[fileIx].lines)
                       /\ LineSelected(netFiles[fileIx].lines[lineNo], port)
                       /\ Len(conns) >= capacity
    \/ pc = "lsof_open" /\ lsofOut.open
    \/ pc = "lsof_line" /\ lineNo > Len(lsofOut.lines)
                        /\ hasData /\ Len(conns) >= capacity
    \/ pc = "lsof_line" /\ lineNo <= Len(lsofOut.lines)
                        /\ lsofOut.lines[lineNo].tag = "p"
                        /\ hasData /\ Len(conns) + 1 = capacity
    \/ pc = "env_open" /\ envSrc.open
    \/ pc = "all_open" /\ listing.open
    \/ pc = "env_split" /\ CountPass(envBuf, Len(envBuf) - 1) > 0
    \/ pc = "env_sysctl" /\ envSrc.open
    \/ pc = "env_scan" /\ HasEq(envBuf)

\* the allocator returns NULL and the helper runs DIE: exit(EXIT_FAILURE)
DieOnAllocFailure ==
    /\ AllocatesNow
    /\ UNCHANGED extVars
    /\ pc' = "exit"
    /\ UNCHANGED <<rc, treeVars, portVars, envVarsAll, infoVars>>

\* C5: no query ends the program from inside the layer; a failed allocation
\* too is returned to the caller as an error.
C5_NoExitInsideLayer == pc # "exit"

----------------------------------------------------------------------------
Init ==
    /\ pc = "idle"
    /\ rc = Running
    /\ TreeVarsInit
    /\ PortVarsInit
    /\ EnvVarsInit
    /\ InfoVarsInit
    /\ bsd = NoBsd
    /\ AllVarsInit
    /\ KillVarsInit
    /\ CliVarsInit

Next ==
    \/ NextTree \/ NextPort \/ NextEnv \/ NextInfo \/ NextInfoMac
    \/ NextAll \/ NextKill \/ NextMain
    \/ DieOnAllocFailure

Spec == Init /\ [][Next]_vars
SpecTree == Init /\ [][NextTree]_vars
SpecPort == Init /\ [][NextPort]_vars
SpecEnv == Init /\ [][NextEnv]_vars
SpecEnvLinux == Init /\ [][NextEnvLinux]_vars
SpecInfo == Init /\ [][NextInfo]_vars
SpecInfoAny == Init /\ [][NextInfo \/ NextInfoMac]_vars
SpecAll == Init /\ [][NextAll]_vars
SpecKill == Init /\ [][NextKill]_vars
SpecMain == Init /\ [][NextMain]_vars

====
